---- MODULE Spec2Model ----
(***************************************************************************)
(* Model of the JSON-schema transformer engine (JsonSchemaTransformer and  *)
(* its Inline / Google / OpenAI subclasses) and of ModelProfile.update.    *)
(*                                                                         *)
(* Python dicts that the code mutates in place (schema nodes) live on an   *)
(* explicit heap and are referred to by address, so that aliasing between  *)
(* the caller's schema, self.defs and the walk's result is visible.  Lists *)
(* and the `properties`-style maps are never mutated in place by the code  *)
(* (it always copies them first), so they are immutable values.            *)
(***************************************************************************)
EXTENDS Integers, Sequences, FiniteSets, TLC

(***************************************************************************)
(* JSON values.  Every value is a record of the same shape so that any two *)
(* values can be compared.  k is the key under which the value is stored   *)
(* in its dict ("" for list members and free values).                      *)
(*   t = "str"  : s is the text; n = 1 marks the text s prefixed by        *)
(*                "#/$defs/" (a reference into $defs), n = 0 plain text    *)
(*   t = "int"  : n          t = "bool" : n \in {0,1}                       *)
(*   t = "none" : Python None / JSON null                                  *)
(*   t = "dict" : n is the heap address of a schema node                   *)
(*   t = "list" : l is the sequence of members                             *)
(*   t = "map"  : l is the sequence of keyed members (properties, $defs)   *)
(*   t = "node" : a schema literal not yet on the heap, l its entries      *)
(*   t = "cut"  : unfolding stopped here (depth exhausted)                 *)
(***************************************************************************)
V(t, s, n, l) == [k |-> "", t |-> t, s |-> s, n |-> n, l |-> l]

VStr(s) == V("str", s, 0, <<>>)

VDefRef(name) == V("str", name, 1, <<>>)

VInt(n) == V("int", "", n, <<>>)

VBool(b) == V("bool", "", IF b THEN 1 ELSE 0, <<>>)

VNone == V("none", "", 0, <<>>)

VDict(a) == V("dict", "", a, <<>>)

VList(l) == V("list", "", 0, l)

VMap(l) == V("map", "", 0, l)

VNode(l) == V("node", "", 0, l)

VCut == V("cut", "", 0, <<>>)

K(key, v) == [v EXCEPT !.k = key]

Unkeyed(v) == [v EXCEPT !.k = ""]

(***************************************************************************)
(* Ordered dict operations on a sequence of keyed values (dict.get,        *)
(* `in`, item assignment, pop, keys).                                      *)
(***************************************************************************)
\* The list f[1], ..., f[n] of a comprehension  [... for x in seq].
ListOf(f, n) == SubSeq(f, 1, n)

Has(d, key) == \E i \in 1..Len(d) : d[i].k = key

Get(d, key) ==
    IF Has(d, key)
    THEN Unkeyed(d[CHOOSE i \in 1..Len(d) : d[i].k = key])
    ELSE VNone

Set(d, key, v) ==
    IF Has(d, key)
    THEN ListOf([i \in 1..Len(d) |-> IF d[i].k = key THEN K(key, v) ELSE d[i]], Len(d))
    ELSE Append(d, K(key, v))

SetDefault(d, key, v) == IF Has(d, key) THEN d ELSE Append(d, K(key, v))

Pop(d, key) == SelectSeq(d, LAMBDA e : e.k # key)

Keys(d) == ListOf([i \in 1..Len(d) |-> d[i].k], Len(d))

SeqToSet(s) == {s[i] : i \in 1..Len(s)}

(***************************************************************************)
(* Python truthiness (`if x:`) of a value, given the heap.                 *)
(***************************************************************************)
Truthy(h, v) ==
    CASE v.t = "none" -> FALSE
      [] v.t = "bool" -> v.n = 1
      [] v.t = "int" -> v.n # 0
      [] v.t = "str" -> ~(v.s = "" /\ v.n = 0)
      [] v.t = "dict" -> h[v.n] # <<>>
      [] OTHER -> v.l # <<>>

(***************************************************************************)
(* Text of a string value and Python's str() of a scalar.  The text of a   *)
(* list or dict is not modelled: "<repr>" stands for it.                   *)
(***************************************************************************)
Digit == <<"0", "1", "2", "3", "4", "5", "6", "7", "8", "9">>

RECURSIVE NatText(_)
NatText(n) == IF n < 10 THEN Digit[n + 1] ELSE NatText(n \div 10) \o Digit[(n % 10) + 1]

IntText(n) == IF n < 0 THEN "-" \o NatText(0 - n) ELSE NatText(n)

TextOf(v) == IF v.n = 1 THEN "#/$defs/" \o v.s ELSE v.s

PyStr(v) ==
    CASE v.t = "str" -> TextOf(v)
      [] v.t = "int" -> IntText(v.n)
      [] v.t = "bool" -> IF v.n = 1 THEN "True" ELSE "False"
      [] v.t = "none" -> "None"
      [] OTHER -> "<repr>"

(***************************************************************************)
(* The heap is a sequence of schema nodes; a node is an ordered dict.      *)
(* AllocVal puts a schema literal on the heap (children first); r is the   *)
(* heap so far and the members placed so far.                              *)
(***************************************************************************)
RECURSIVE AllocVal(_, _), AllocSeq(_, _)
AllocVal(h, v) ==
    LET Node(r) == [h |-> Append(r.h, r.l), v |-> K(v.k, VDict(Len(r.h) + 1))]
        Members(r) == [h |-> r.h, v |-> [v EXCEPT !.l = r.l]]
    IN  CASE v.t = "node" -> Node(AllocSeq([h |-> h, l |-> <<>>], v.l))
          [] v.t \in {"list", "map"} -> Members(AllocSeq([h |-> h, l |-> <<>>], v.l))
          [] OTHER -> [h |-> h, v |-> v]

AllocSeq(r, seq) ==
    LET Placed(m) == [h |-> m.h, l |-> Append(r.l, m.v)]
    IN  IF Len(r.l) = Len(seq) THEN r
        ELSE AllocSeq(Placed(AllocVal(r.h, seq[Len(r.l) + 1])), seq)

(***************************************************************************)
(* copy.deepcopy: every node reachable from the copied one is copied once  *)
(* (sharing and cycles are kept) and the copies refer to each other as     *)
(* the originals do.  The copies are appended to the heap in the order of  *)
(* the originals' addresses.                                               *)
(***************************************************************************)
RECURSIVE Addrs(_)
Addrs(v) ==
    CASE v.t = "dict" -> {v.n}
      [] v.t \in {"list", "map"} -> UNION {Addrs(v.l[i]) : i \in 1..Len(v.l)}
      [] OTHER -> {}

\* The nodes that the nodes of the set refer to.
Children(h, nodes) == UNION {Addrs(VList(h[a])) : a \in nodes}

RECURSIVE Reachable(_, _)
Reachable(h, nodes) ==
    IF Children(h, nodes) \subseteq nodes THEN nodes
    ELSE Reachable(h, nodes \cup Children(h, nodes))

Rank(nodes, a) == Cardinality({b \in nodes : b <= a})

\* The value with every reference to a copied node replaced by one to its copy.
RECURSIVE Moved(_, _, _)
Moved(base, nodes, v) ==
    CASE v.t = "dict" -> K(v.k, VDict(base + Rank(nodes, v.n)))
      [] v.t \in {"list", "map"} ->
            [v EXCEPT !.l = ListOf([i \in 1..Len(v.l) |-> Moved(base, nodes, v.l[i])], Len(v.l))]
      [] OTHER -> v

CopyOf(h, nodes, i) == Moved(Len(h), nodes, VList(h[CHOOSE a \in nodes : Rank(nodes, a) = i])).l

CopyAll(h, nodes, a) ==
    [h |-> h \o [i \in 1..Cardinality(nodes) |-> CopyOf(h, nodes, i)],
     a |-> Len(h) + Rank(nodes, a)]

DeepCopy(h, a) == CopyAll(h, Reachable(h, {a}), a)

(***************************************************************************)
(* Structural content of a value: the nodes it points to, unfolded to a    *)
(* bounded depth, with dict entries in a canonical key order (Python dict  *)
(* equality ignores insertion order).                                      *)
(***************************************************************************)
KeyUniverse ==
    <<"$defs", "$ref", "type", "title", "description", "default", "format",
      "nullable", "properties", "required", "additionalProperties",
      "patternProperties", "items", "prefixItems", "minItems", "maxItems",
      "anyOf", "oneOf", "enum", "const", "minLength", "pattern",
      "A", "B", "C", "Z", "root", "root_root", "a", "b", "c">>

\* The entries of d whose keys are in KeyUniverse, in KeyUniverse's order.
CanonFrom(d, keys) == ListOf([i \in 1..Len(keys) |-> K(keys[i], Get(d, keys[i]))], Len(keys))

Canon(d) ==
    CanonFrom(d, SelectSeq(KeyUniverse, LAMBDA key : Has(d, key)))
    \o SelectSeq(d, LAMBDA e : e.k \notin SeqToSet(KeyUniverse))

RECURSIVE Unfold(_, _, _), UnfoldSeq(_, _, _)
Unfold(h, v, depth) ==
    CASE v.t = "dict" ->
            IF depth = 0 THEN K(v.k, VCut)
            ELSE K(v.k, VNode(UnfoldSeq(h, Canon(h[v.n]), depth - 1)))
      [] v.t = "map" -> [v EXCEPT !.l = UnfoldSeq(h, Canon(v.l), depth)]
      [] v.t = "list" -> [v EXCEPT !.l = UnfoldSeq(h, v.l, depth)]
      [] OTHER -> v

UnfoldSeq(h, seq, depth) == ListOf([i \in 1..Len(seq) |-> Unfold(h, seq[i], depth)], Len(seq))

MaxUnfold == 7

Content(h, a) == Unfold(h, VDict(a), MaxUnfold)

(***************************************************************************)
(* The walk.  `self` holds the transformer's configuration; st is the      *)
(* state a walk reads and writes: the heap h, self.refs_stack,             *)
(* self.recursive_refs, self.is_strict_compatible, the warnings emitted,   *)
(* a log of the steps taken, and err, the exception raised ("" if none).   *)
(* The log has an event for the entry of _handle ("enter"), for every      *)
(* reference followed ("resolve") or found on refs_stack ("recursive"),    *)
(* for the call of transform ("hook") and for the return ("exit").         *)
(* Every operator returns [st, a]: the new state and the returned schema.  *)
(***************************************************************************)
R(st, a) == [st |-> st, a |-> a]

Failed(st) == st.err # ""

Raise(st, e) == [st EXCEPT !.err = e]

\* A step of the walk at the node a, with what the walk's state holds at that
\* moment: the node's entries d, refs_stack and is_strict_compatible.
Ev(st, e, key, a) ==
    [e |-> e, k |-> key, a |-> a, d |-> st.h[a], stack |-> st.refs_stack,
     compat |-> st.is_strict_compatible]

Logged(st, e, key, a) == [st EXCEPT !.log = Append(@, Ev(st, e, key, a))]

IsStr(v, text) == v.t = "str" /\ v.n = 0 /\ v.s = text

ResolutionError == "UserError: Could not find $ref definition"

RecursiveRefError == "UserError: Recursive $refs are not supported by Gemini"

\* A variant of UnresolvedRef that lets the walk go on with the node at hand.
UnresolvedRefIgnored(st) == st

\* raise UserError(f'Could not find $ref definition for {key}')
UnresolvedRef(st) == Raise(st, ResolutionError)

\* The `while ref is not None` loop of _handle.
RECURSIVE ResolveRefs(_, _, _, _)
ResolveRefs(self, st, a, nested_refs) ==
    LET ref == Get(st.h[a], "$ref")
        key == ref.s
    IN  IF ref.t = "none"
        THEN [st |-> st, a |-> a, nested_refs |-> nested_refs]
        ELSE IF key \in SeqToSet(st.refs_stack)
        THEN [st |-> Logged([st EXCEPT !.recursive_refs = @ \cup {key}], "recursive", key, a),
              a |-> a, nested_refs |-> nested_refs]
        ELSE LET st1 == Logged([st EXCEPT !.refs_stack = Append(@, key)], "resolve", key, a)
                 def_schema == Get(self.defs, key)
             IN  IF def_schema.t = "none"
                 THEN [st |-> UnresolvedRef(st1), a |-> a, nested_refs |-> nested_refs + 1]
                 ELSE ResolveRefs(self, st1, def_schema.n, nested_refs + 1)

IsNullSchema(h, v) == h[v.n] = <<K("type", VStr("null"))>>

SimplifyNullableUnion(st, cases) ==
    LET Nullable(c) ==
            [st |-> [st EXCEPT !.h = [c.h EXCEPT ![c.a] = Set(@, "nullable", VBool(TRUE))]],
             l |-> <<VDict(c.a)>>]
        NonNull(non_null_schema) ==
            IF st.h[non_null_schema.n] # <<>>
            THEN Nullable(DeepCopy(st.h, non_null_schema.n))
            ELSE [st |-> st, l |-> <<cases[1]>>]
    IN  IF Len(cases) = 2 /\ \E i \in 1..2 : IsNullSchema(st.h, cases[i])
        THEN IF ~IsNullSchema(st.h, cases[1]) THEN NonNull(cases[1])
             ELSE IF ~IsNullSchema(st.h, cases[2]) THEN NonNull(cases[2])
             ELSE [st |-> st, l |-> <<cases[1]>>]
        ELSE [st |-> st, l |-> cases]

(***************************************************************************)
(* GoogleJsonSchemaTransformer.transform: rewrites the node in place.  One *)
(* operator per statement of the method, in the order of the code; each    *)
(* does its statement on the state it is given and goes on with the next.  *)
(***************************************************************************)
PopAll(d, keys) == SelectSeq(d, LAMBDA e : e.k \notin SeqToSet(keys))

GoogleDroppedKeys ==
    <<"title", "default", "$schema", "discriminator", "examples",
      "exclusiveMaximum", "exclusiveMinimum">>

\* _item_hashable followed by hash(): a dict whose values are all scalars
\* hashes by its sorted items; a nested list or dict value makes hash() raise.
ItemHashable(h, item) ==
    \A i \in 1..Len(h[item.n]) : h[item.n][i].t \in {"str", "int", "bool", "none"}

ItemHash(h, item) ==
    Canon(ListOf([i \in 1..Len(h[item.n]) |->
                     IF h[item.n][i].t = "bool"
                     THEN K(h[item.n][i].k, VInt(h[item.n][i].n)) ELSE h[item.n][i]],
                 Len(h[item.n])))

RECURSIVE UniqueItems(_, _, _, _)
UniqueItems(h, todo, unique_items, seen) ==
    IF todo = <<>> THEN unique_items
    ELSE IF ItemHash(h, Head(todo)) \in seen
         THEN UniqueItems(h, Tail(todo), unique_items, seen)
         ELSE UniqueItems(h, Tail(todo), Append(unique_items, Unkeyed(Head(todo))),
                          seen \cup {ItemHash(h, Head(todo))})

\* The node after  schema['items'] = ... ; setdefault('minItems'/'maxItems').
GoogleItems(s, prefix_items, items, unique_items, wrap) ==
    LET Bounded(s2) ==
            IF items.t = "none"
            THEN SetDefault(SetDefault(s2, "minItems", VInt(Len(prefix_items))),
                            "maxItems", VInt(Len(prefix_items)))
            ELSE SetDefault(s2, "minItems", VInt(Len(prefix_items)))
    IN  Bounded(IF Len(unique_items) > 1 THEN Set(s, "items", VDict(wrap))
                ELSE IF Len(unique_items) = 1 THEN Set(s, "items", unique_items[1])
                ELSE s)

GooglePrefixItems(st, a) ==
    LET prefix_items == Get(st.h[a], "prefixItems").l
        items == Get(st.h[a], "items")
        first == IF items.t = "none" THEN <<>> ELSE <<items>>
        Converted(unique_items) ==
            [st EXCEPT !.h = [(IF Len(unique_items) > 1
                               THEN Append(st.h, <<K("anyOf", VList(unique_items))>>)
                               ELSE st.h)
                              EXCEPT ![a] = GoogleItems(Pop(@, "prefixItems"), prefix_items,
                                                        items, unique_items, Len(st.h) + 1)]]
    IN  IF \E i \in 1..Len(first \o prefix_items) : ~ItemHashable(st.h, (first \o prefix_items)[i])
        THEN Raise([st EXCEPT !.h[a] = Pop(@, "prefixItems")], "TypeError: unhashable type")
        ELSE Converted(UniqueItems(st.h, prefix_items, first,
                                   {ItemHash(st.h, first[i]) : i \in 1..Len(first)}))

GoogleCheck(st, a) ==
    IF Has(st.h[a], "$ref") THEN R(Raise(st, RecursiveRefError), a)
    ELSE IF Has(st.h[a], "prefixItems") THEN R(GooglePrefixItems(st, a), a)
    ELSE R(st, a)

\* GoogleFormat with a created description of the same form as an appended
\* one.
GoogleFormatParenthesised(st, a) ==
    IF st.err # "" THEN R(st, a)
    ELSE GoogleCheck(
             IF ~IsStr(Get(st.h[a], "type"), "string") THEN st
             ELSE IF ~Truthy(st.h, Get(st.h[a], "format"))
             THEN [st EXCEPT !.h[a] = Pop(@, "format")]
             ELSE IF Truthy(st.h, Get(st.h[a], "description"))
             THEN [st EXCEPT !.h[a] =
                      Set(Pop(@, "format"), "description",
                          VStr(PyStr(Get(@, "description")) \o " (format: "
                               \o PyStr(Get(@, "format")) \o ")"))]
             ELSE [st EXCEPT !.h[a] =
                      Set(Pop(@, "format"), "description",
                          VStr("(format: " \o PyStr(Get(@, "format")) \o ")"))],
             a)

GoogleFormat(st, a) ==
    IF st.err # "" THEN R(st, a)
    ELSE GoogleCheck(
             IF ~IsStr(Get(st.h[a], "type"), "string") THEN st
             ELSE IF ~Truthy(st.h, Get(st.h[a], "format"))
             THEN [st EXCEPT !.h[a] = Pop(@, "format")]
             ELSE IF Truthy(st.h, Get(st.h[a], "description"))
             THEN [st EXCEPT !.h[a] =
                      Set(Pop(@, "format"), "description",
                          VStr(PyStr(Get(@, "description")) \o " (format: "
                               \o PyStr(Get(@, "format")) \o ")"))]
             ELSE [st EXCEPT !.h[a] =
                      Set(Pop(@, "format"), "description",
                          VStr("Format: " \o PyStr(Get(@, "format"))))],
             a)

GoogleOneOf(st, a) ==
    IF st.err # "" THEN R(st, a)
    ELSE GoogleFormat(
             IF Has(st.h[a], "oneOf") /\ ~Has(st.h[a], "type")
             THEN [st EXCEPT !.h[a] = Set(Pop(@, "oneOf"), "anyOf", Get(@, "oneOf"))]
             ELSE st,
             a)

GoogleEnum(st, a) ==
    IF st.err # "" THEN R(st, a)
    ELSE GoogleOneOf(
             IF Truthy(st.h, Get(st.h[a], "enum"))
             THEN [st EXCEPT !.h[a] =
                      Set(Set(@, "type", VStr("string")), "enum",
                          VList(ListOf([i \in 1..Len(Get(st.h[a], "enum").l) |->
                                            VStr(PyStr(Get(st.h[a], "enum").l[i]))],
                                        Len(Get(st.h[a], "enum").l))))]
             ELSE st,
             a)

GoogleConst(st, a) ==
    IF st.err # "" THEN R(st, a)
    ELSE GoogleEnum(
             IF Get(st.h[a], "const").t # "none"
             THEN [st EXCEPT !.h[a] = Set(Pop(@, "const"), "enum",
                                          VList(<<Get(@, "const")>>))]
             ELSE [st EXCEPT !.h[a] = Pop(@, "const")],
             a)

GoogleDropKeys(st, a) ==
    IF st.err # "" THEN R(st, a)
    ELSE GoogleConst([st EXCEPT !.h[a] = PopAll(@, GoogleDroppedKeys)], a)

\* GoogleAdditionalProperties with a warning for every node that has the
\* keyword.
GoogleAdditionalPropertiesWarned(st, a) ==
    IF st.err # "" THEN R(st, a)
    ELSE GoogleDropKeys(
             [st EXCEPT !.h[a] = Pop(@, "additionalProperties"),
                        !.warnings = IF Has(st.h[a], "additionalProperties")
                                     THEN Append(@, a) ELSE @],
             a)

GoogleAdditionalProperties(st, a) ==
    IF st.err # "" THEN R(st, a)
    ELSE GoogleDropKeys(
             [st EXCEPT !.h[a] = Pop(@, "additionalProperties"),
                        !.warnings = IF Truthy(st.h, Get(st.h[a], "additionalProperties"))
                                     THEN Append(@, a) ELSE @],
             a)

GoogleTransform(self, st, a) == GoogleAdditionalProperties(st, a)

(***************************************************************************)
(* OpenAIJsonSchemaTransformer.transform: rewrites the node in place.  One *)
(* operator per statement of the method, in the order of the code; each    *)
(* does its statement on the state it is given and goes on with the next.  *)
(* strict is "true", "false" or "none" (unset).                            *)
(***************************************************************************)
StrictIncompatibleKeys ==
    <<"minLength", "maxLength", "pattern", "format", "minimum", "maximum",
      "multipleOf", "patternProperties", "unevaluatedProperties",
      "propertyNames", "minProperties", "maxProperties", "unevaluatedItems",
      "contains", "minContains", "maxContains", "minItems", "maxItems",
      "uniqueItems">>

Reverse(seq) == ListOf([i \in 1..Len(seq) |-> seq[Len(seq) + 1 - i]], Len(seq))

RECURSIVE Join(_, _)
Join(parts, sep) ==
    IF parts = <<>> THEN ""
    ELSE IF Len(parts) = 1 THEN parts[1]
    ELSE parts[1] \o sep \o Join(Tail(parts), sep)

\* `present_keys` is a Python set: its iteration order is not fixed by the
\* program; self.set_order selects the order the run happens to use.
PresentKeys(self, d) ==
    SelectSeq(IF self.set_order = "fwd" THEN StrictIncompatibleKeys
              ELSE Reverse(StrictIncompatibleKeys),
              LAMBDA key : Has(d, key))

NotStrictCompatible(st) == [st EXCEPT !.is_strict_compatible = FALSE]

IncompatibleNotes(s, present_keys) ==
    Join(ListOf([i \in 1..Len(present_keys) |->
                    present_keys[i] \o "=" \o PyStr(Get(s, present_keys[i]))],
                Len(present_keys)), ", ")

\* schema['required'] = list(schema['properties'].keys())
RequireAll(s) ==
    Set(s, "required",
        VList(ListOf([i \in 1..Len(Get(s, "properties").l) |->
                          VStr(Get(s, "properties").l[i].k)],
                      Len(Get(s, "properties").l))))

\* A variant of OpenAIObject whose auto-detection does not look at which
\* properties required names.
OpenAIObjectIgnoringRequired(self, st, a) ==
    IF ~IsStr(Get(st.h[a], "type"), "object") THEN R(st, a)
    ELSE IF self.strict = "true"
    THEN R([st EXCEPT !.h[a] =
               RequireAll(SetDefault(Set(@, "additionalProperties", VBool(FALSE)),
                                     "properties", VMap(<<>>)))], a)
    ELSE IF self.strict = "none"
    THEN IF \/ Get(st.h[a], "additionalProperties") # VBool(FALSE)
            \/ Get(st.h[a], "properties").t = "none"
            \/ Get(st.h[a], "required").t = "none"
         THEN R(NotStrictCompatible(st), a)
         ELSE R(st, a)
    ELSE R(st, a)

OpenAIObject(self, st, a) ==
    IF ~IsStr(Get(st.h[a], "type"), "object") THEN R(st, a)
    ELSE IF self.strict = "true"
    THEN R([st EXCEPT !.h[a] =
               RequireAll(SetDefault(Set(@, "additionalProperties", VBool(FALSE)),
                                     "properties", VMap(<<>>)))], a)
    ELSE IF self.strict = "none"
    THEN IF \/ Get(st.h[a], "additionalProperties") # VBool(FALSE)
            \/ Get(st.h[a], "properties").t = "none"
            \/ Get(st.h[a], "required").t = "none"
         THEN R(NotStrictCompatible(st), a)
         ELSE IF \E i \in 1..Len(Get(st.h[a], "properties").l) :
                    VStr(Get(st.h[a], "properties").l[i].k)
                        \notin SeqToSet(Get(st.h[a], "required").l)
              THEN R(NotStrictCompatible(st), a)
              ELSE R(st, a)
    ELSE R(st, a)

OpenAIOneOf(self, st, a) ==
    IF st.err # "" THEN R(st, a)
    ELSE OpenAIObject(self,
             IF ~Has(st.h[a], "oneOf") THEN st
             ELSE IF self.strict = "true"
             THEN [st EXCEPT !.h[a] = Set(Pop(@, "oneOf"), "anyOf", Get(@, "oneOf"))]
             ELSE NotStrictCompatible(st),
             a)

OpenAIIncompatibleKeys(self, st, a) ==
    IF st.err # "" THEN R(st, a)
    ELSE OpenAIOneOf(self,
             IF PresentKeys(self, st.h[a]) = <<>> THEN st
             ELSE IF self.strict = "true"
             THEN [st EXCEPT !.h[a] =
                      Set(PopAll(@, PresentKeys(self, @)), "description",
                          IF Truthy(st.h, Get(@, "description"))
                          THEN VStr(PyStr(Get(@, "description")) \o " ("
                                    \o IncompatibleNotes(@, PresentKeys(self, @)) \o ")")
                          ELSE VStr(IncompatibleNotes(@, PresentKeys(self, @))))]
             ELSE IF self.strict = "none" THEN NotStrictCompatible(st)
             ELSE st,
             a)

OpenAIMoveRef(self, st, a) ==
    IF st.err # "" THEN R(st, a)
    ELSE OpenAIIncompatibleKeys(self,
             IF Get(st.h[a], "$ref").t # "none" /\ Len(st.h[a]) > 1
             THEN [st EXCEPT !.h = [Append(st.h, <<K("$ref", Get(st.h[a], "$ref"))>>)
                                    EXCEPT ![a] = Set(Pop(@, "$ref"), "anyOf",
                                                      VList(<<VDict(Len(st.h) + 1)>>))]]
             ELSE st,
             a)

OpenAIRootRef(self, st, a) ==
    IF st.err # "" THEN R(st, a)
    ELSE OpenAIMoveRef(self,
             IF Get(st.h[a], "$ref").t # "none" /\ Get(st.h[a], "$ref") = self.root_ref
             THEN [st EXCEPT !.h[a] = Set(@, "$ref", VStr("#"))]
             ELSE st,
             a)

\* A variant of OpenAIDefault that removes the default under auto-detection
\* as well.
OpenAIDefaultDropped(self, st, a) ==
    IF st.err # "" THEN R(st, a)
    ELSE OpenAIRootRef(self,
             IF ~Has(st.h[a], "default") THEN st
             ELSE IF self.strict = "true" THEN [st EXCEPT !.h[a] = Pop(@, "default")]
             ELSE IF self.strict = "none"
             THEN NotStrictCompatible([st EXCEPT !.h[a] = Pop(@, "default")])
             ELSE st,
             a)

OpenAIDefault(self, st, a) ==
    IF st.err # "" THEN R(st, a)
    ELSE OpenAIRootRef(self,
             IF ~Has(st.h[a], "default") THEN st
             ELSE IF self.strict = "true" THEN [st EXCEPT !.h[a] = Pop(@, "default")]
             ELSE IF self.strict = "none" THEN NotStrictCompatible(st)
             ELSE st,
             a)

OpenAIDropKeys(self, st, a) ==
    IF st.err # "" THEN R(st, a)
    ELSE OpenAIDefault(self,
             [st EXCEPT !.h[a] = PopAll(@, <<"title", "$schema", "discriminator">>)], a)

OpenAITransform(self, st, a) == OpenAIDropKeys(self, st, a)

(***************************************************************************)
(* transform, dispatched on the transformer's class.  The inline-only      *)
(* transformer returns the schema unchanged.                               *)
(***************************************************************************)
Transform(self, st, a) ==
    CASE self.policy = "google" -> GoogleTransform(self, Logged(st, "hook", "", a), a)
      [] self.policy = "openai" -> OpenAITransform(self, Logged(st, "hook", "", a), a)
      [] OTHER -> R(Logged(st, "hook", "", a), a)

(***************************************************************************)
(* _handle and its helpers.  fuel is the number of nested _handle calls    *)
(* the interpreter still allows; running out of it is Python's             *)
(* RecursionError.  An exception ends every enclosing call: an operator    *)
(* given or reaching a failed state returns it unchanged.                  *)
(***************************************************************************)
RECURSIVE Handle(_, _, _, _), HandleAll(_, _, _, _), HandleObject(_, _, _, _),
          HandleArray(_, _, _, _), HandleUnion(_, _, _, _, _)

\* Handles the members in order; l is the sequence with every member replaced
\* by what _handle returned, changed tells whether any `is not` test was true.
HandleAll(self, st, members, fuel) ==
    LET Cons(r, rest) ==
            [st |-> rest.st,
             l |-> <<K(Head(members).k, VDict(r.a))>> \o rest.l,
             changed |-> rest.changed \/ r.a # Head(members).n]
        Rest(r) ==
            IF r.st.err # "" THEN [st |-> r.st, l |-> <<>>, changed |-> FALSE]
            ELSE Cons(r, HandleAll(self, r.st, Tail(members), fuel))
    IN  IF members = <<>> THEN [st |-> st, l |-> <<>>, changed |-> FALSE]
        ELSE Rest(Handle(self, st, Head(members).n, fuel))

\* schema[key] = handled_..., done only when some member changed.
StoreHandled(p, a, key, kind) ==
    IF p.changed
    THEN [p.st EXCEPT !.h[a] = Set(@, key, V(kind, "", 0, p.l))]
    ELSE p.st

\* schema[key] = handled, done only when `handled is not` the old value.
StoreSchema(r, a, key, old) ==
    IF r.a # old
    THEN [r.st EXCEPT !.h[a] = Set(@, key, VDict(r.a))]
    ELSE r.st

\* One operator per statement group of _handle_object, in the order of the
\* code; each takes the outcome of the _handle calls of its group.
HandleObject(self, st, a, fuel) ==
    LET HandledPatternProperties(p) ==
            IF p.st.err # "" THEN R(p.st, a)
            ELSE R(StoreHandled(p, a, "patternProperties", "map"), a)
        PatternProperties(s) ==
            IF Get(s.h[a], "patternProperties").t = "none" THEN R(s, a)
            ELSE HandledPatternProperties(
                     HandleAll(self, s, Get(s.h[a], "patternProperties").l, fuel))
        HandledAdditionalProperties(r, additional_properties) ==
            IF r.st.err # "" THEN R(r.st, a)
            ELSE PatternProperties(
                     StoreSchema(r, a, "additionalProperties", additional_properties))
        AdditionalProperties(s) ==
            IF Get(s.h[a], "additionalProperties").t \in {"none", "bool"}
            THEN PatternProperties(s)
            ELSE HandledAdditionalProperties(
                     Handle(self, s, Get(s.h[a], "additionalProperties").n, fuel),
                     Get(s.h[a], "additionalProperties").n)
        HandledProperties(p) ==
            IF p.st.err # "" THEN R(p.st, a)
            ELSE AdditionalProperties(StoreHandled(p, a, "properties", "map"))
    IN  IF Truthy(st.h, Get(st.h[a], "properties"))
        THEN HandledProperties(HandleAll(self, st, Get(st.h[a], "properties").l, fuel))
        ELSE AdditionalProperties(st)

HandleArray(self, st, a, fuel) ==
    LET HandledItems(r, items) ==
            IF r.st.err # "" THEN R(r.st, a)
            ELSE R(StoreSchema(r, a, "items", items), a)
        Items(s) ==
            IF ~Truthy(s.h, Get(s.h[a], "items")) THEN R(s, a)
            ELSE HandledItems(Handle(self, s, Get(s.h[a], "items").n, fuel),
                              Get(s.h[a], "items").n)
        HandledPrefixItems(p) ==
            IF p.st.err # "" THEN R(p.st, a)
            ELSE Items(StoreHandled(p, a, "prefixItems", "list"))
    IN  IF Truthy(st.h, Get(st.h[a], "prefixItems"))
        THEN HandledPrefixItems(HandleAll(self, st, Get(st.h[a], "prefixItems").l, fuel))
        ELSE Items(st)

\* _handle_union once the members are handled (hm): the nullable
\* simplification, the collapse of a union of one member, and the copy of the
\* node when something changed.
UnionRebuilt(self, hm, a, union_kind) ==
    LET Rebuilt(simp, changed) ==
            IF Len(simp.l) = 1 THEN R(simp.st, simp.l[1].n)
            ELSE IF changed \/ self.simplify_nullable_unions
            THEN R([simp.st EXCEPT !.h = Append(@, Set(@[a], union_kind, VList(simp.l)))],
                   Len(simp.st.h) + 1)
            ELSE R(simp.st, a)
    IN  IF hm.st.err # "" THEN R(hm.st, a)
        ELSE Rebuilt(IF self.simplify_nullable_unions
                     THEN SimplifyNullableUnion(hm.st, hm.l)
                     ELSE [st |-> hm.st, l |-> hm.l],
                     hm.changed)

\* A variant of HandleUnion that returns the only member of a union without
\* handling it.
HandleUnionUnhandledMember(self, st, a, union_kind, fuel) ==
    IF ~Truthy(st.h, Get(st.h[a], union_kind)) THEN R(st, a)
    ELSE IF Len(Get(st.h[a], union_kind).l) = 1 THEN R(st, Get(st.h[a], union_kind).l[1].n)
    ELSE UnionRebuilt(self, HandleAll(self, st, Get(st.h[a], union_kind).l, fuel),
                      a, union_kind)

HandleUnion(self, st, a, union_kind, fuel) ==
    IF ~Truthy(st.h, Get(st.h[a], union_kind)) THEN R(st, a)
    ELSE UnionRebuilt(self, HandleAll(self, st, Get(st.h[a], union_kind).l, fuel),
                      a, union_kind)

Handle(self, st, schema, fuel) ==
    LET Popped(t, nested_refs) ==
            IF t.st.err # "" THEN t
            ELSE R(Logged([t.st EXCEPT !.refs_stack = SubSeq(@, 1, Len(@) - nested_refs)],
                          "exit", "", t.a),
                   t.a)
        Transformed(d, nested_refs) ==
            IF d.st.err # "" THEN d
            ELSE Popped(Transform(self, d.st, d.a), nested_refs)
        AnyOfHandled(u) ==
            IF u.st.err # "" THEN u
            ELSE HandleUnion(self, u.st, u.a, "oneOf", fuel - 1)
        Resolved(rr) ==
            IF rr.st.err # "" THEN R(rr.st, rr.a)
            ELSE Transformed(
                     CASE IsStr(Get(rr.st.h[rr.a], "type"), "object") ->
                              HandleObject(self, rr.st, rr.a, fuel - 1)
                       [] IsStr(Get(rr.st.h[rr.a], "type"), "array") ->
                              HandleArray(self, rr.st, rr.a, fuel - 1)
                       [] Get(rr.st.h[rr.a], "type").t = "none" ->
                              AnyOfHandled(HandleUnion(self, rr.st, rr.a, "anyOf", fuel - 1))
                       [] OTHER -> R(rr.st, rr.a),
                     rr.nested_refs)
    IN  IF fuel = 0 THEN R(Raise(st, "RecursionError"), schema)
        ELSE Resolved(IF self.prefer_inlined_defs
                      THEN ResolveRefs(self, Logged(st, "enter", "", schema), schema, 0)
                      ELSE [st |-> Logged(st, "enter", "", schema), a |-> schema,
                            nested_refs |-> 0])

(***************************************************************************)
(* walk.  MaxDepth is the interpreter's recursion limit.                   *)
(***************************************************************************)
MaxDepth == 7

\* {key: self.defs[key] for key in self.recursive_refs}: a dict built by
\* iterating a set; a name that self.defs lacks raises KeyError.
RecursiveDefs(self, st) ==
    SelectSeq(IF self.set_order = "fwd" THEN self.defs ELSE Reverse(self.defs),
              LAMBDA e : e.k \in st.recursive_refs)

RECURSIVE FreeRootKey(_, _)
FreeRootKey(root_key, defs) ==
    IF Has(defs, root_key) THEN FreeRootKey(root_key \o "_root", defs) ELSE root_key

RootKey(self, st) ==
    IF Get(st.h[self.schema], "$ref").t # "none"
    THEN Get(st.h[self.schema], "$ref").s
    ELSE FreeRootKey(IF Has(st.h[self.schema], "title")
                     THEN PyStr(Get(st.h[self.schema], "title")) ELSE "root",
                     RecursiveDefs(self, st))

ReducedDefsWalk(self, st, handled) ==
    IF \E key \in st.recursive_refs : ~Has(self.defs, key)
    THEN R(Raise(st, "KeyError"), handled)
    ELSE R([st EXCEPT !.h = Append(@, <<K("$defs", VMap(Set(RecursiveDefs(self, st),
                                                             RootKey(self, st),
                                                             VDict(handled)))),
                                        K("$ref", VDefRef(RootKey(self, st)))>>)],
           Len(st.h) + 1)

BaseWalk(self, st) ==
    LET WithDefs(ds, handled) ==
            IF ds.st.err # "" THEN R(ds.st, handled)
            ELSE R([ds.st EXCEPT !.h[handled] = Set(@, "$defs", VMap(ds.l))], handled)
        Handled(hd) ==
            IF hd.st.err # "" THEN hd
            ELSE IF ~self.prefer_inlined_defs /\ self.defs # <<>>
            THEN WithDefs(HandleAll(self, hd.st, self.defs, MaxDepth), hd.a)
            ELSE IF hd.st.recursive_refs # {} THEN ReducedDefsWalk(self, hd.st, hd.a)
            ELSE hd
        Copied(c) ==
            Handled(Handle(self, [st EXCEPT !.h = [c.h EXCEPT ![c.a] = Pop(@, "$defs")]],
                           c.a, MaxDepth))
    IN  Copied(DeepCopy(st.h, self.schema))

RECURSIVE DictUpdate(_, _)
DictUpdate(d, other) ==
    IF other = <<>> THEN d
    ELSE DictUpdate(Set(d, Head(other).k, Unkeyed(Head(other))), Tail(other))

\* The statements of OpenAIJsonSchemaTransformer.walk after super().walk()
\* has returned r.
OpenAISplice(self, r) ==
    LET root_def == Get(self.defs, self.root_ref.s)
    IN  IF Failed(r.st) \/ self.root_ref.t = "none" THEN r
        ELSE R([r.st EXCEPT !.h[r.a] =
                   DictUpdate(Pop(@, "$ref"),
                              IF root_def.t = "dict" THEN r.st.h[root_def.n] ELSE <<>>)],
               r.a)

OpenAIWalk(self, st) == OpenAISplice(self, BaseWalk(self, st))

Walk(self, st) ==
    IF self.policy = "openai" THEN OpenAIWalk(self, st) ELSE BaseWalk(self, st)

(***************************************************************************)
(* __init__ of the three transformer classes.                              *)
(***************************************************************************)
NewTransformer(h, schema, policy, strict, set_order) ==
    [policy |-> policy,
     schema |-> schema,
     strict |-> strict,
     is_strict_compatible |-> TRUE,
     prefer_inlined_defs |-> policy \in {"inline", "google"},
     simplify_nullable_unions |-> policy = "google",
     defs |-> Get(h[schema], "$defs").l,
     refs_stack |-> <<>>,
     recursive_refs |-> {},
     root_ref |-> IF policy = "openai" THEN Get(h[schema], "$ref") ELSE VNone,
     set_order |-> set_order]

(***************************************************************************)
(* Input documents: schema literals over two definition names.             *)
(***************************************************************************)
TStr == VNode(<<K("type", VStr("string"))>>)

TNull == VNode(<<K("type", VStr("null"))>>)

Empty == VNode(<<>>)

Ref(name) == VNode(<<K("$ref", VDefRef(name))>>)

Titled == VNode(<<K("type", VStr("string")), K("title", VStr("T"))>>)

Obj(props) == VNode(<<K("type", VStr("object")), K("properties", VMap(props))>>)

Arr(items) == VNode(<<K("type", VStr("array")), K("items", items)>>)

AnyOf(members) == VNode(<<K("anyOf", VList(members))>>)

OneOf(members) == VNode(<<K("oneOf", VList(members))>>)

TypedUnion(members) == VNode(<<K("type", VStr("object")), K("anyOf", VList(members))>>)

Leaves == {Ref("A"), Ref("B"), TStr, TNull, Empty}

RefLeaves == {Ref("A"), Ref("B"), TStr}

Roots ==
    Leaves
    \cup {Obj(<<K("a", x)>>) : x \in Leaves}
    \cup {Obj(<<K("a", x), K("b", y)>>) : x \in RefLeaves, y \in RefLeaves}
    \cup {Obj(<<K("a", Ref("A")), K("b", Ref("B")), K("c", Ref("A"))>>),
          Obj(<<K("a", Ref("B")), K("b", Ref("A")), K("c", Ref("B"))>>)}
    \cup {AnyOf(<<x, y>>) : x \in Leaves, y \in Leaves}
    \cup {OneOf(<<x, TNull>>) : x \in Leaves}
    \cup {Arr(x) : x \in RefLeaves}
    \cup {TypedUnion(<<x, TNull>>) : x \in {Ref("A"), TStr}}

\* Roots that carry the keywords the provider rewrites act on.
KeywordRoots ==
    {VNode(<<K("type", VStr("string")), K("format", VStr("date"))>>),
     VNode(<<K("type", VStr("string")), K("format", VStr("date")), K("description", VStr("d"))>>),
     VNode(<<K("type", VStr("string")), K("format", VStr("")), K("description", VStr("d"))>>),
     VNode(<<K("type", VStr("string")), K("minLength", VInt(1)), K("default", VStr("x")),
             K("title", VStr("T"))>>),
     VNode(<<K("const", VInt(1))>>),
     VNode(<<K("enum", VList(<<VInt(1), VBool(TRUE), VStr("x")>>))>>),
     VNode(<<K("type", VStr("array")), K("prefixItems", VList(<<Ref("A"), TStr>>))>>),
     VNode(<<K("type", VStr("array")), K("prefixItems", VList(<<TStr, TStr>>)), K("items", TStr)>>),
     VNode(<<K("type", VStr("array")), K("prefixItems", VList(<<Arr(TStr), Arr(TStr)>>))>>),
     VNode(<<K("type", VStr("array")), K("prefixItems", VList(<<Obj(<<K("a", TStr)>>)>>))>>),
     VNode(<<K("type", VStr("object")), K("additionalProperties", TStr)>>),
     VNode(<<K("type", VStr("object")), K("additionalProperties", VBool(TRUE))>>),
     VNode(<<K("type", VStr("object")), K("properties", VMap(<<K("a", TStr)>>)),
             K("required", VList(<<VStr("a")>>)), K("additionalProperties", VBool(FALSE))>>),
     VNode(<<K("type", VStr("object")), K("patternProperties", VMap(<<K("a", Ref("A"))>>))>>),
     Obj(<<K("a", VNode(<<K("$ref", VDefRef("A")), K("description", VStr("d"))>>))>>),
     Obj(<<K("a", VNode(<<K("$ref", VDefRef("A")), K("oneOf", VList(<<TStr, TNull>>))>>))>>),
     OneOf(<<TStr, Ref("A")>>),
     VNode(<<K("type", VStr("object")), K("properties", VMap(<<K("a", TStr), K("b", TStr)>>)),
             K("required", VList(<<VStr("a")>>)), K("additionalProperties", VBool(FALSE))>>),
     VNode(<<K("type", VStr("array")), K("prefixItems", VList(<<TStr, TStr>>)),
             K("minItems", VInt(1)), K("maxItems", VInt(5))>>),
     VNode(<<K("type", VStr("array")), K("prefixItems", VList(<<TStr, TNull>>))>>),
     AnyOf(<<OneOf(<<TStr>>)>>),
     AnyOf(<<VNode(<<K("type", VStr("string")), K("oneOf", VList(<<TNull>>))>>)>>),
     VNode(<<K("anyOf", VList(<<TStr, TNull>>)),
             K("oneOf", VList(<<Obj(<<K("a", AnyOf(<<TStr>>))>>)>>))>>)}

\* Roots that are a reference with sibling keys, and the definitions they
\* are used with.
RootRefRoots ==
    {VNode(<<K("$ref", VDefRef("A")), K("type", VStr("object")),
             K("properties", VMap(<<K("a", TStr)>>))>>),
     VNode(<<K("$ref", VDefRef("A")), K("description", VStr("d"))>>)}

RootRefDefs ==
    {VNode(<<K("properties", VMap(<<K("b", TStr)>>))>>),
     Obj(<<K("b", Ref("A"))>>),
     VNode(<<K("title", VStr("T")), K("oneOf", VList(<<Ref("A"), TNull>>))>>),
     VNode(<<K("title", VStr("T")), K("minLength", VInt(3)),
             K("oneOf", VList(<<OneOf(<<TStr>>), Ref("A")>>))>>)}

Absent == VNone

DefsA ==
    {Absent, Titled, Ref("B"), Obj(<<K("a", Ref("B"))>>), Obj(<<K("a", Ref("A"))>>),
     AnyOf(<<Ref("A"), Ref("B")>>), AnyOf(<<Ref("B"), TNull>>), Arr(Ref("B"))}

DefsB ==
    {Absent, TStr, Titled, Ref("A"), Obj(<<K("a", Ref("A"))>>)}

\* The document with the given root and definitions ($defs is present only
\* when a definition is).
Document(root, defA, defB) ==
    LET defs == (IF defA = Absent THEN <<>> ELSE <<K("A", defA)>>)
                \o (IF defB = Absent THEN <<>> ELSE <<K("B", defB)>>)
    IN  IF defs = <<>> THEN root
        ELSE VNode(<<K("$defs", VMap(defs))>> \o root.l)

Documents ==
    {Document(r, a, b) : r \in Roots, a \in DefsA, b \in DefsB}
    \cup {Document(r, a, Absent) : r \in KeywordRoots, a \in {Absent, Titled, Ref("A")}}
    \cup {Document(r, a, Absent) : r \in RootRefRoots \cup {Ref("A")}, a \in RootRefDefs}


(***************************************************************************)
(* Model profiles.  A profile object is its class and its attributes (a    *)
(* function from the field names its class declares to values); objects    *)
(* live on a heap of their own, so that `update` returning one of its      *)
(* operands and `update` returning a new object are told apart.  Address 0 *)
(* is None.                                                                *)
(***************************************************************************)
DefaultPromptedOutputTemplate == "Always respond with a JSON object that's compatible with this schema: {schema}"

ModelProfileFields ==
    {"supports_tools", "supports_json_schema_output", "supports_json_object_output",
     "default_structured_output_mode", "prompted_output_template", "json_schema_transformer"}

OpenAIModelProfileFields ==
    {"openai_supports_strict_tool_definition", "openai_supports_sampling_settings"}

BedrockModelProfileFields == {"bedrock_supports_tool_choice", "bedrock_tool_result_format"}

\* fields(self): the fields a class declares, inherited ones included.
Fields(cls) ==
    CASE cls = "OpenAIModelProfile" -> ModelProfileFields \cup OpenAIModelProfileFields
      [] cls = "BedrockModelProfile" -> ModelProfileFields \cup BedrockModelProfileFields
      [] OTHER -> ModelProfileFields

\* f.default
Default(f) ==
    CASE f = "supports_tools" -> TRUE
      [] f = "supports_json_schema_output" -> FALSE
      [] f = "supports_json_object_output" -> FALSE
      [] f = "default_structured_output_mode" -> "tool"
      [] f = "prompted_output_template" -> DefaultPromptedOutputTemplate
      [] f = "json_schema_transformer" -> "None"
      [] f = "openai_supports_strict_tool_definition" -> TRUE
      [] f = "openai_supports_sampling_settings" -> TRUE
      [] f = "bedrock_supports_tool_choice" -> TRUE
      [] f = "bedrock_tool_result_format" -> "text"

\* cls(**kwargs)
New(cls, kwargs) ==
    [cls |-> cls,
     attrs |-> [f \in Fields(cls) |-> IF f \in DOMAIN kwargs THEN kwargs[f] ELSE Default(f)]]

\* isinstance(obj, cls): the two provider classes derive from ModelProfile.
IsInstance(obj, cls) == obj.cls = cls \/ cls = "ModelProfile"

\* The loop of update: the values of self's fields that profile has and that
\* differ from the field's default (getattr raising AttributeError skips).
NonDefaultAttrs(self, profile) ==
    [f \in {g \in Fields(self.cls) : g \in DOMAIN profile.attrs /\ profile.attrs[g] # Default(g)}
        |-> profile.attrs[f]]

\* dataclasses.replace(self, **changes): a new object of self's class.
Replace(self, changes) ==
    [cls |-> self.cls,
     attrs |-> [f \in DOMAIN self.attrs |-> IF f \in DOMAIN changes THEN changes[f] ELSE self.attrs[f]]]

\* A variant of Merged that takes every value profile has, default or not.
MergedIgnoringDefaults(self, profile) ==
    Replace(self, [f \in Fields(self.cls) \cap DOMAIN profile.attrs |-> profile.attrs[f]])

\* A variant of Merged that merges over the fields of profile's class.
MergedOverOverrideFields(self, profile) ==
    [cls |-> self.cls,
     attrs |-> [f \in DOMAIN self.attrs \cup DOMAIN profile.attrs |->
                   IF f \in DOMAIN profile.attrs
                      /\ (profile.attrs[f] # Default(f) \/ f \notin DOMAIN self.attrs)
                   THEN profile.attrs[f] ELSE self.attrs[f]]]

\* The object update builds when profile is not None.
Merged(self, profile) == Replace(self, NonDefaultAttrs(self, profile))

\* A variant of Update that writes the merged values into self.
UpdateInPlace(objs, self, profile) ==
    IF profile = 0 THEN [objs |-> objs, a |-> self]
    ELSE [objs |-> [objs EXCEPT ![self] = Merged(objs[self], objs[profile])], a |-> self]

\* self.update(profile) on the heap objs: the heap afterwards and the address
\* returned.
Update(objs, self, profile) ==
    IF profile = 0 THEN [objs |-> objs, a |-> self]
    ELSE [objs |-> Append(objs, Merged(objs[self], objs[profile])), a |-> Len(objs) + 1]

\* cls.from_profile(profile)
FromProfile(objs, cls, profile) ==
    IF profile # 0 /\ IsInstance(objs[profile], cls) THEN [objs |-> objs, a |-> profile]
    ELSE Update(Append(objs, New(cls, <<>>)), Len(objs) + 1, profile)

ProfileClasses == {"ModelProfile", "OpenAIModelProfile", "BedrockModelProfile"}

\* The profiles the callers construct.
ProfileLiterals ==
    {New("ModelProfile", <<>>),
     New("ModelProfile", "supports_tools" :> FALSE),
     New("ModelProfile", "supports_json_schema_output" :> TRUE),
     New("ModelProfile", ("json_schema_transformer" :> "InlineDefsJsonSchemaTransformer")
                         @@ ("default_structured_output_mode" :> "native")),
     New("OpenAIModelProfile", <<>>),
     New("OpenAIModelProfile", "openai_supports_strict_tool_definition" :> FALSE),
     New("OpenAIModelProfile", ("json_schema_transformer" :> "OpenAIJsonSchemaTransformer")
                               @@ ("openai_supports_strict_tool_definition" :> FALSE)),
     New("OpenAIModelProfile", ("json_schema_transformer" :> "OpenAIJsonSchemaTransformer")
                               @@ ("openai_supports_sampling_settings" :> FALSE)),
     New("BedrockModelProfile", <<>>),
     New("BedrockModelProfile", "bedrock_supports_tool_choice" :> FALSE),
     New("BedrockModelProfile", ("bedrock_tool_result_format" :> "json")
                                @@ ("supports_json_schema_output" :> TRUE))}

(***************************************************************************)
(* The program state.  Schema side: the heap, the caller's schema, one     *)
(* transformer object and the outcome of its last walk.  Profile side:     *)
(* the profile objects and the last update / from_profile call.            *)
(* Concurrent side: the threads that walk at the same time, each with its  *)
(* own transformer, and the fields of the transformers they walk with.     *)
(***************************************************************************)
VARIABLES heap, caller, original, tr, outcome, walks, profiles, constructed, calls, call,
          threads, contexts

schemaVars == <<heap, caller, original, tr, outcome, walks, threads, contexts>>

threadVars == <<threads, contexts>>

profileVars == <<profiles, constructed, calls, call>>

vars == <<heap, caller, original, tr, outcome, walks, profiles, constructed, calls, call,
          threads, contexts>>

MaxWalks == 2

MaxProfiles == 2

MaxCalls == 1

NoTransformer == NewTransformer(<<<<>>>>, 1, "none", "none", "fwd")

NoOutcome ==
    [status |-> "none", err |-> "", a |-> 0, log |-> <<>>, warnings |-> <<>>,
     start |-> [refs_stack |-> <<>>, recursive_refs |-> {}, is_strict_compatible |-> TRUE]]

NoCall == [op |-> "none", cls |-> "", self |-> 0, profile |-> 0, result |-> 0, before |-> <<>>]

NoProfiles ==
    /\ profiles = <<>>
    /\ constructed = 0
    /\ calls = 0
    /\ call = NoCall

NoThreads ==
    /\ threads = <<>>
    /\ contexts = <<>>

\* The caller builds a schema; original records its content.
Built(r) ==
    /\ heap = r.h
    /\ caller = r.v.n
    /\ original = Content(r.h, r.v.n)
    /\ tr = NoTransformer
    /\ outcome = NoOutcome
    /\ walks = 0

Init == NoProfiles /\ NoThreads /\ \E doc \in Documents : Built(AllocVal(<<>>, doc))

\* A transformer is constructed over the caller's schema.
Construct(policy, strict, set_order) ==
    /\ tr.policy = "none"
    /\ tr' = NewTransformer(heap, caller, policy, strict, set_order)
    /\ UNCHANGED <<heap, caller, original, outcome, walks>>
    /\ UNCHANGED profileVars
    /\ UNCHANGED threadVars

\* The state a walk starts from: the heap and the transformer's fields.
WalkState ==
    [h |-> heap, refs_stack |-> tr.refs_stack, recursive_refs |-> tr.recursive_refs,
     is_strict_compatible |-> tr.is_strict_compatible,
     warnings |-> <<>>, log |-> <<>>, err |-> ""]

\* The effect of a walk that ended as r: the heap and the transformer's fields
\* are as the walk left them, outcome is what the caller got (start is what
\* the transformer's fields held when walk was called).
Walked(r) ==
    /\ heap' = r.st.h
    /\ tr' = [tr EXCEPT !.refs_stack = r.st.refs_stack,
                        !.recursive_refs = r.st.recursive_refs,
                        !.is_strict_compatible = r.st.is_strict_compatible]
    /\ outcome' = [status |-> IF Failed(r.st) THEN "raised" ELSE "returned",
                   err |-> r.st.err,
                   a |-> IF Failed(r.st) THEN 0 ELSE r.a,
                   log |-> r.st.log,
                   warnings |-> r.st.warnings,
                   start |-> [refs_stack |-> tr.refs_stack,
                              recursive_refs |-> tr.recursive_refs,
                              is_strict_compatible |-> tr.is_strict_compatible]]

\* transformer.walk()
DoWalk ==
    /\ tr.policy # "none"
    /\ walks < MaxWalks
    /\ Walked(Walk(tr, WalkState))
    /\ walks' = walks + 1
    /\ UNCHANGED <<caller, original>>
    /\ UNCHANGED profileVars
    /\ UNCHANGED threadVars

Next ==
    \/ \E policy \in {"inline", "google"} : Construct(policy, "none", "fwd")
    \/ \E strict \in {"true", "false", "none"} : Construct("openai", strict, "fwd")
    \/ Construct("openai", "true", "rev")
    \/ DoWalk

Spec == Init /\ [][Next]_vars

(***************************************************************************)
(* The profile side: callers construct profiles and merge them.            *)
(***************************************************************************)
InitProfiles == NoProfiles /\ NoThreads /\ Built(AllocVal(<<>>, Empty))

\* A caller constructs a profile.
NewProfile(p) ==
    /\ constructed < MaxProfiles
    /\ profiles' = Append(profiles, p)
    /\ constructed' = constructed + 1
    /\ UNCHANGED <<calls, call>>
    /\ UNCHANGED schemaVars

\* The effect of a call that ended as r.
Called(op, cls, self, profile, r) ==
    /\ profiles' = r.objs
    /\ call' = [op |-> op, cls |-> cls, self |-> self, profile |-> profile,
                result |-> r.a, before |-> profiles]
    /\ calls' = calls + 1
    /\ UNCHANGED constructed
    /\ UNCHANGED schemaVars

\* self.update(profile); profile 0 is None.
DoUpdate(self, profile) ==
    /\ calls < MaxCalls
    /\ Called("update", profiles[self].cls, self, profile, Update(profiles, self, profile))

\* cls.from_profile(profile)
DoFromProfile(cls, profile) ==
    /\ calls < MaxCalls
    /\ Called("from_profile", cls, 0, profile, FromProfile(profiles, cls, profile))

NextProfiles ==
    \/ \E p \in ProfileLiterals : NewProfile(p)
    \/ \E self \in 1..Len(profiles), profile \in 0..Len(profiles) : DoUpdate(self, profile)
    \/ \E cls \in ProfileClasses, profile \in 0..Len(profiles) : DoFromProfile(cls, profile)

SpecProfiles == InitProfiles /\ [][NextProfiles]_vars


(***************************************************************************)
(* Layering: callers hold three profiles a, b and c and merge them both    *)
(* ways, a.update(b).update(c) and a.update(b.update(c)).                  *)
(***************************************************************************)
InitLayers ==
    /\ NoThreads
    /\ Built(AllocVal(<<>>, Empty))
    /\ \E a \in ProfileLiterals, b \in ProfileLiterals, c \in ProfileLiterals :
           profiles = <<a, b, c>>
    /\ constructed = Len(profiles)
    /\ calls = 0
    /\ call = NoCall

\* self.update(profile) on the profiles at these addresses.
LayerUpdate(self, profile) ==
    Called("update", profiles[self].cls, self, profile, Update(profiles, self, profile))

\* a.update(b), then its result updated with c, then b.update(c), then a
\* updated with that result.
NextLayers ==
    \/ calls = 0 /\ LayerUpdate(1, 2)
    \/ calls = 1 /\ LayerUpdate(call.result, 3)
    \/ calls = 2 /\ LayerUpdate(2, 3)
    \/ calls = 3 /\ LayerUpdate(1, call.result)

SpecLayers == InitLayers /\ [][NextLayers]_vars

(***************************************************************************)
(* Walks that run at the same time.  Each thread has constructed its own   *)
(* transformer over its own document; the documents live in the one heap   *)
(* of the process.  A walk advances one step of walk / _handle at a time,  *)
(* and between two steps of a thread the other threads may take steps.     *)
(* frames is the thread's call stack: the walk call at the bottom, the     *)
(* nested _handle calls above it; ret is what the call that has just       *)
(* returned handed to its caller (0: nothing).                             *)
(***************************************************************************)
Threads == {1, 2}

\* A variant of ContextOf under which every transformer uses the refs_stack,
\* recursive_refs and is_strict_compatible of the first one.
ContextShared(t) == 1

\* __init__ gives every transformer object its own refs_stack, recursive_refs
\* and is_strict_compatible: thread t works with those of its transformer.
ContextOf(t) == t

NewContext(self) ==
    [refs_stack |-> self.refs_stack, recursive_refs |-> self.recursive_refs,
     is_strict_compatible |-> self.is_strict_compatible]

NewThread(h, schema, doc, policy, strict) ==
    [self |-> NewTransformer(h, schema, policy, strict, "fwd"), doc |-> doc, pc |-> "ready",
     frames |-> <<>>, ret |-> 0, result |-> 0, err |-> "", overlapped |-> FALSE]

WalkFrame ==
    [fn |-> "walk", a |-> 0, nested_refs |-> 0, phases |-> <<"root">>, todo |-> <<>>,
     l |-> <<>>, changed |-> FALSE]

HandleFrame(schema) ==
    [fn |-> "handle", a |-> schema, nested_refs |-> 0, phases |-> <<"enter">>, todo |-> <<>>,
     l |-> <<>>, changed |-> FALSE]

Top(t) == threads[t].frames[Len(threads[t].frames)]

WithTop(thread, frame) == [thread EXCEPT !.frames = [@ EXCEPT ![Len(@)] = frame]]

\* What the statements of thread t see: the heap and its transformer's fields.
State(t) ==
    [h |-> heap, refs_stack |-> contexts[ContextOf(t)].refs_stack,
     recursive_refs |-> contexts[ContextOf(t)].recursive_refs,
     is_strict_compatible |-> contexts[ContextOf(t)].is_strict_compatible,
     warnings |-> <<>>, log |-> <<>>, err |-> ""]

\* Thread t has taken a step that left st and, unless it raised, thread.
Stepped(t, st, thread) ==
    /\ heap' = st.h
    /\ contexts' = [contexts EXCEPT ![ContextOf(t)] =
                       [refs_stack |-> st.refs_stack, recursive_refs |-> st.recursive_refs,
                        is_strict_compatible |-> st.is_strict_compatible]]
    /\ threads' = [threads EXCEPT ![t] =
                      [(IF st.err # ""
                        THEN [threads[t] EXCEPT !.pc = "raised", !.err = st.err,
                                                !.frames = <<>>, !.ret = 0]
                        ELSE thread)
                       EXCEPT !.overlapped =
                           @ \/ \E u \in Threads \ {t} : threads[u].pc = "running"]]
    /\ UNCHANGED <<caller, original, tr, outcome, walks>>
    /\ UNCHANGED profileVars

\* The steps of _handle after the reference loop, by the type of the node.
PhasesOf(d) ==
    CASE IsStr(Get(d, "type"), "object") ->
             <<"properties", "additionalProperties", "patternProperties", "transform">>
      [] IsStr(Get(d, "type"), "array") -> <<"prefixItems", "items", "transform">>
      [] Get(d, "type").t = "none" -> <<"anyOf", "oneOf", "transform">>
      [] OTHER -> <<"transform">>

\* The schemas that the step named phase hands to _handle, in order.
Members(h, a, phase) ==
    CASE phase \in {"properties", "prefixItems", "anyOf", "oneOf"} ->
             IF Truthy(h, Get(h[a], phase)) THEN Get(h[a], phase).l ELSE <<>>
      [] phase = "patternProperties" ->
             IF Get(h[a], phase).t = "none" THEN <<>> ELSE Get(h[a], phase).l
      [] phase = "additionalProperties" ->
             IF Get(h[a], phase).t \in {"none", "bool"} THEN <<>>
             ELSE <<Unkeyed(Get(h[a], phase))>>
      [] phase = "items" ->
             IF Truthy(h, Get(h[a], phase)) THEN <<Unkeyed(Get(h[a], phase))>> ELSE <<>>
      [] OTHER -> <<>>

\* The frame at the start of the first of the given steps.
Began(frame, h, phases) ==
    [frame EXCEPT !.phases = phases, !.todo = Members(h, frame.a, Head(phases)),
                  !.l = <<>>, !.changed = FALSE]

\* What a step of _handle_object, _handle_array or _handle_union does with
\* the handled members frame.l: the node at hand and the state after it.
PhaseStored(self, st, frame) ==
    LET phase == Head(frame.phases)
        hm == [st |-> st, l |-> frame.l, changed |-> frame.changed]
    IN  IF frame.l = <<>> THEN R(st, frame.a)
        ELSE IF phase \in {"properties", "patternProperties"}
        THEN R(StoreHandled(hm, frame.a, phase, "map"), frame.a)
        ELSE IF phase = "prefixItems"
        THEN R(StoreHandled(hm, frame.a, phase, "list"), frame.a)
        ELSE IF phase \in {"additionalProperties", "items"}
        THEN R(StoreSchema(R(st, frame.l[1].n), frame.a, phase, Get(st.h[frame.a], phase).n),
               frame.a)
        ELSE UnionRebuilt(self, hm, frame.a, phase)

\* walk: the copy of the schema, the removal of $defs and the call of _handle.
BeginWalk(t) ==
    /\ threads[t].pc = "ready"
    /\ LET c == DeepCopy(heap, threads[t].self.schema)
       IN  Stepped(t, [State(t) EXCEPT !.h = [c.h EXCEPT ![c.a] = Pop(@, "$defs")]],
                   [threads[t] EXCEPT !.pc = "running",
                                      !.frames = <<WalkFrame, HandleFrame(c.a)>>])

\* _handle: the reference loop (or RecursionError when the calls nest too
\* deep) and the choice of the steps by the node's type.
EnterHandle(t) ==
    /\ threads[t].pc = "running"
    /\ Top(t).fn = "handle"
    /\ Head(Top(t).phases) = "enter"
    /\ LET self == threads[t].self
           rr == IF Len(threads[t].frames) - 1 > MaxDepth
                 THEN [st |-> Raise(State(t), "RecursionError"), a |-> Top(t).a,
                       nested_refs |-> 0]
                 ELSE IF self.prefer_inlined_defs
                 THEN ResolveRefs(self, State(t), Top(t).a, 0)
                 ELSE [st |-> State(t), a |-> Top(t).a, nested_refs |-> 0]
       IN  Stepped(t, rr.st,
                   WithTop(threads[t],
                           Began([Top(t) EXCEPT !.a = rr.a, !.nested_refs = rr.nested_refs],
                                 rr.st.h, PhasesOf(rr.st.h[rr.a]))))

\* self._handle(member) is called for the next member.
CallMember(t) ==
    /\ threads[t].pc = "running"
    /\ Top(t).todo # <<>>
    /\ threads[t].ret = 0
    /\ Stepped(t, State(t),
               [threads[t] EXCEPT !.frames = Append(@, HandleFrame(Head(Top(t).todo).n))])

\* The call for a member has returned: the `is not` test and the record of
\* what it returned.
MemberReturned(t) ==
    /\ threads[t].pc = "running"
    /\ Top(t).todo # <<>>
    /\ threads[t].ret # 0
    /\ Stepped(t, State(t),
               [WithTop(threads[t],
                        [Top(t) EXCEPT !.l = Append(@, K(Head(Top(t).todo).k,
                                                         VDict(threads[t].ret))),
                                       !.changed = @ \/ threads[t].ret # Head(Top(t).todo).n,
                                       !.todo = Tail(@)])
                EXCEPT !.ret = 0])

\* The end of a step of _handle_object, _handle_array or _handle_union.
EndPhase(t) ==
    /\ threads[t].pc = "running"
    /\ Top(t).fn = "handle"
    /\ Head(Top(t).phases) \notin {"enter", "transform"}
    /\ Top(t).todo = <<>>
    /\ threads[t].ret = 0
    /\ LET r == PhaseStored(threads[t].self, State(t), Top(t))
       IN  Stepped(t, r.st,
                   WithTop(threads[t],
                           Began([Top(t) EXCEPT !.a = r.a], r.st.h, Tail(Top(t).phases))))

\* schema = self.transform(schema), the pop of refs_stack and the return.
TransformNode(t) ==
    /\ threads[t].pc = "running"
    /\ Top(t).fn = "handle"
    /\ Head(Top(t).phases) = "transform"
    /\ LET r == Transform(threads[t].self, State(t), Top(t).a)
       IN  Stepped(t,
                   IF r.st.err # "" THEN r.st
                   ELSE [r.st EXCEPT !.refs_stack = SubSeq(@, 1, Len(@) - Top(t).nested_refs)],
                   [threads[t] EXCEPT !.frames = SubSeq(@, 1, Len(@) - 1), !.ret = r.a])

\* walk: _handle has returned the handled root; $defs is handled next unless
\* definitions are inlined or there are none.
RootHandled(t) ==
    /\ threads[t].pc = "running"
    /\ Top(t).fn = "walk"
    /\ Head(Top(t).phases) = "root"
    /\ threads[t].ret # 0
    /\ LET self == threads[t].self
       IN  Stepped(t, State(t),
                   [WithTop(threads[t],
                            IF ~self.prefer_inlined_defs /\ self.defs # <<>>
                            THEN [Top(t) EXCEPT !.a = threads[t].ret,
                                                !.phases = <<"defs", "finish">>,
                                                !.todo = self.defs]
                            ELSE [Top(t) EXCEPT !.a = threads[t].ret,
                                                !.phases = <<"finish">>])
                    EXCEPT !.ret = 0])

\* walk: the result is put together and returned (with the statements of
\* OpenAIJsonSchemaTransformer.walk for that class).
FinishWalk(t) ==
    /\ threads[t].pc = "running"
    /\ Top(t).fn = "walk"
    /\ Head(Top(t).phases) # "root"
    /\ Top(t).todo = <<>>
    /\ threads[t].ret = 0
    /\ LET self == threads[t].self
           base == IF Head(Top(t).phases) = "defs"
                   THEN R([State(t) EXCEPT !.h[Top(t).a] = Set(@, "$defs", VMap(Top(t).l))],
                          Top(t).a)
                   ELSE IF State(t).recursive_refs # {}
                   THEN ReducedDefsWalk(self, State(t), Top(t).a)
                   ELSE R(State(t), Top(t).a)
           r == IF self.policy = "openai" THEN OpenAISplice(self, base) ELSE base
       IN  Stepped(t, r.st,
                   [threads[t] EXCEPT !.pc = "returned", !.frames = <<>>, !.result = r.a])

\* The documents and the transformer classes of the concurrent walks.
ConcurrentDocuments ==
    {Document(Obj(<<K("a", Ref("A")), K("b", Ref("A"))>>), TStr, Absent),
     Document(Ref("A"), Obj(<<K("a", Ref("A"))>>), Absent),
     VNode(<<K("type", VStr("string")), K("default", VStr("x"))>>),
     AnyOf(<<TStr, TNull>>),
     Obj(<<K("a", Ref("B"))>>),
     VNode(<<K("type", VStr("array")), K("prefixItems", VList(<<TStr, TStr>>))>>),
     Document(VNode(<<K("type", VStr("object")),
                      K("additionalProperties", AnyOf(<<Ref("A")>>)),
                      K("patternProperties", VMap(<<K("x", OneOf(<<TStr>>))>>))>>),
              Arr(TStr), Absent)}

ConcurrentPolicies == {"inline", "google", "openai"}

\* Two callers have each built a document and constructed a transformer.
BuiltBoth(p1, p2, r1, r2, d1, d2) ==
    /\ heap = r2.h
    /\ threads = <<NewThread(r2.h, r1.v.n, d1, p1, "none"),
                   NewThread(r2.h, r2.v.n, d2, p2, "none")>>
    /\ contexts = <<NewContext(NewTransformer(r2.h, r1.v.n, p1, "none", "fwd")),
                    NewContext(NewTransformer(r2.h, r2.v.n, p2, "none", "fwd"))>>
    /\ caller = 0
    /\ original = Empty
    /\ tr = NoTransformer
    /\ outcome = NoOutcome
    /\ walks = 0

InitConcurrent ==
    /\ NoProfiles
    /\ \E d1 \in ConcurrentDocuments, d2 \in ConcurrentDocuments,
          p1 \in ConcurrentPolicies, p2 \in ConcurrentPolicies :
           BuiltBoth(p1, p2, AllocVal(<<>>, d1), AllocVal(AllocVal(<<>>, d1).h, d2), d1, d2)

NextConcurrent ==
    \E t \in Threads :
        \/ BeginWalk(t)
        \/ EnterHandle(t)
        \/ CallMember(t)
        \/ MemberReturned(t)
        \/ EndPhase(t)
        \/ TransformNode(t)
        \/ RootHandled(t)
        \/ FinishWalk(t)

SpecConcurrent == InitConcurrent /\ [][NextConcurrent]_vars
(***************************************************************************)
(* Observations on schema contents, used to state the properties.          *)
(***************************************************************************)
\* The names n for which a node of v carries  $ref: "#/$defs/n".
RECURSIVE DefRefsIn(_)
DefRefsIn(v) ==
    IF v.t \in {"node", "map", "list"}
    THEN UNION {DefRefsIn(v.l[i]) : i \in 1..Len(v.l)}
         \cup (IF v.t = "node" /\ Get(v.l, "$ref").t = "str" /\ Get(v.l, "$ref").n = 1
               THEN {Get(v.l, "$ref").s} ELSE {})
    ELSE {}

\* Some node of v has a $ref key.
RECURSIVE HasRefKey(_)
HasRefKey(v) ==
    /\ v.t \in {"node", "map", "list"}
    /\ \/ v.t = "node" /\ Has(v.l, "$ref")
       \/ \E i \in 1..Len(v.l) : HasRefKey(v.l[i])

DefNamesOf(v) == SeqToSet(Keys(Get(v.l, "$defs").l))

AllRefsResolve(v) == DefRefsIn(v) \subseteq DefNamesOf(v)

Returned == outcome.status = "returned"

Result == Content(heap, outcome.a)


\* The names the definition n of v refers to, and those reachable from a set
\* of names in at most k steps.
RefsOfDef(v, n) == DefRefsIn(Get(Get(v.l, "$defs").l, n))

RECURSIVE ReachableDefs(_, _, _)
ReachableDefs(v, names, k) ==
    IF k = 0 THEN names
    ELSE ReachableDefs(v, names \cup UNION {RefsOfDef(v, n) : n \in names \cap DefNamesOf(v)}, k - 1)

\* No definition of v refers to itself, directly or through others.
DefsAcyclic(v) ==
    \A n \in DefNamesOf(v) :
        n \notin ReachableDefs(v, RefsOfDef(v, n), Cardinality(DefNamesOf(v)))

IsNullNode(v) == v.t = "node" /\ v.l = <<K("type", VStr("null"))>>

\* The members of the union of the root of v when the root has no type and
\* exactly one union keyword; <<>> otherwise.
RootUnion(v) ==
    IF Has(v.l, "type") \/ Has(v.l, "anyOf") = Has(v.l, "oneOf") THEN <<>>
    ELSE IF Has(v.l, "anyOf") THEN Get(v.l, "anyOf").l ELSE Get(v.l, "oneOf").l

\* The root of v is  {anyOf|oneOf: [X, {type: null}]}  (in either order) for a
\* schema X other than {type: null}.
IsNullableUnion(v) ==
    /\ Len(RootUnion(v)) = 2
    /\ Cardinality({i \in 1..2 : IsNullNode(RootUnion(v)[i])}) = 1

NonNullMember(v) == RootUnion(v)[CHOOSE i \in 1..2 : ~IsNullNode(RootUnion(v)[i])]

\* The document v with its root replaced by the schema x ($defs kept).
WithRoot(v, x) ==
    VNode((IF Has(v.l, "$defs") THEN <<K("$defs", Get(v.l, "$defs"))>> ELSE <<>>) \o x.l)

\* What a new transformer of the given policy returns for the document doc:
\* status "returned" and the content, or status "raised".
FreshWalk(doc, policy) ==
    LET Outcome(r) ==
            [status |-> IF Failed(r.st) THEN "raised" ELSE "returned",
             content |-> IF Failed(r.st) THEN VNone ELSE Content(r.st.h, r.a)]
        Walking(r) ==
            Outcome(Walk(NewTransformer(r.h, r.v.n, policy, "none", "fwd"),
                         [h |-> r.h, refs_stack |-> <<>>, recursive_refs |-> {},
                          is_strict_compatible |-> TRUE, warnings |-> <<>>, log |-> <<>>,
                          err |-> ""]))
    IN  Walking(AllocVal(<<>>, doc))

\* The node x with  nullable: true  added.
PlusNullable(x) == VNode(Canon(Set(x.l, "nullable", VBool(TRUE))))

\* The operands and the result of the last update / from_profile call.
Base == call.before[call.self]

Override == call.before[call.profile]

Merge == profiles[call.result]

UpdatedWith == call.op = "update" /\ call.profile # 0

NonDefaultFields(p) == {f \in DOMAIN p.attrs : p.attrs[f] # Default(f)}

(***************************************************************************)
(* C1: after walk returns or raises, the schema the caller passed in,      *)
(* including every definition under its $defs, is structurally equal to    *)
(* what it was before the transformer was constructed.                     *)
(***************************************************************************)
C1_CallerSchemaNeverMutated == walks > 0 => Content(heap, caller) = original

(***************************************************************************)
(* C2: base.update(override) gives every field f of the result the value   *)
(* override.f when override is present, has f and override.f differs from  *)
(* f's default, and base.f otherwise; an absent override returns base      *)
(* itself, an override with every field at its default gives a result      *)
(* equal to base.                                                          *)
(***************************************************************************)
C2_UpdateFieldSemantics ==
    call.op = "update" =>
        IF call.profile = 0 THEN call.result = call.self /\ Merge = Base
        ELSE /\ DOMAIN Merge.attrs = DOMAIN Base.attrs
             /\ \A f \in DOMAIN Merge.attrs :
                    Merge.attrs[f] = IF f \in NonDefaultFields(Override)
                                     THEN Override.attrs[f] ELSE Base.attrs[f]
             /\ NonDefaultFields(Override) = {} => Merge = Base

\* C2 witness: an update whose override has exactly one non-default field, and
\* the result differs from base in exactly that field.
C2_OneFieldOverridden ==
    /\ UpdatedWith
    /\ Cardinality(NonDefaultFields(Override)) = 1
    /\ Cardinality({f \in DOMAIN Base.attrs : Merge.attrs[f] # Base.attrs[f]}) = 1

(***************************************************************************)
(* C3 (as stated): when the override's class declares a field that the     *)
(* base's class does not, a non-default value of that field is applied to  *)
(* the merged result.                                                      *)
(***************************************************************************)
C3_OverrideOnlyFieldApplied ==
    UpdatedWith =>
        \A f \in NonDefaultFields(Override) \ DOMAIN Base.attrs :
            f \in DOMAIN Merge.attrs /\ Merge.attrs[f] = Override.attrs[f]

(***************************************************************************)
(* C3 (amended): update merges over the fields of the base's class: the    *)
(* result has exactly the fields the base's class declares and a field     *)
(* that only the override's class declares is not in the result, whatever  *)
(* its value.                                                              *)
(***************************************************************************)
C3_OverrideOnlyFieldDropped ==
    UpdatedWith =>
        /\ DOMAIN Merge.attrs = Fields(Base.cls)
        /\ \A f \in DOMAIN Override.attrs \ Fields(Base.cls) : f \notin DOMAIN Merge.attrs

\* C3 witness: an update of a base that is no OpenAIModelProfile with an
\* override whose openai_supports_strict_tool_definition is False.
C3_VendorFlagOntoOtherClass ==
    /\ UpdatedWith
    /\ Base.cls # "OpenAIModelProfile"
    /\ Override.cls = "OpenAIModelProfile"
    /\ Override.attrs["openai_supports_strict_tool_definition"] = FALSE

(***************************************************************************)
(* C4: update leaves every field of base and of override as it was, the    *)
(* result has the base's class, and the fields that only the base's class  *)
(* declares have the base's values in the result.                          *)
(***************************************************************************)
C4_UpdateNeverMutatesOperands ==
    call.op = "update" =>
        /\ \A i \in 1..Len(call.before) : profiles[i] = call.before[i]
        /\ Merge.cls = Base.cls
        /\ \A f \in DOMAIN Base.attrs :
               (call.profile = 0 \/ f \notin DOMAIN Override.attrs)
                   => f \in DOMAIN Merge.attrs /\ Merge.attrs[f] = Base.attrs[f]

\* C4 witness: a BedrockModelProfile with a non-default bedrock field updated
\* with a plain ModelProfile that changes some field.
C4_BedrockUpdatedWithPlain ==
    /\ UpdatedWith
    /\ Base.cls = "BedrockModelProfile"
    /\ Base.attrs["bedrock_supports_tool_choice"] = FALSE
    /\ Override.cls = "ModelProfile"
    /\ Merge # Base

(***************************************************************************)
(* C5: walk terminates for every finite document and policy: it returns a  *)
(* document or raises one of its own errors, it never exhausts the         *)
(* interpreter's recursion limit.                                          *)
(***************************************************************************)
C5_WalkTerminates == walks > 0 => outcome.err # "RecursionError"

(***************************************************************************)
(* C6: under the Google policy a reference classified as recursive makes   *)
(* the walk raise the unsupported-feature error, and no returned document  *)
(* contains a $ref.                                                        *)
(***************************************************************************)
C6_GoogleNeverReturnsRef ==
    tr.policy = "google" /\ walks > 0 =>
        /\ (\E i \in 1..Len(outcome.log) : outcome.log[i].e = "recursive")
              => outcome.status = "raised" /\ outcome.err = RecursiveRefError
        /\ Returned => ~HasRefKey(Result)

(***************************************************************************)
(* C7: for a document whose $defs are acyclic and whose references all     *)
(* resolve, the first Google walk returns a document with no $ref key and  *)
(* no $defs; when the root is a reference, the result is what the walk     *)
(* returns for the definition the reference names.                        *)
(***************************************************************************)
C7_GoogleInlinesAcyclicDefs ==
    tr.policy = "google" /\ walks = 1 /\ AllRefsResolve(original) /\ DefsAcyclic(original) =>
        /\ Returned
        /\ ~HasRefKey(Result)
        /\ ~Has(Result.l, "$defs")
        /\ Get(original.l, "$ref").n = 1 =>
               Result = FreshWalk(WithRoot(original,
                                           Get(Get(original.l, "$defs").l,
                                               Get(original.l, "$ref").s)),
                                  "google").content

(***************************************************************************)
(* C8: no dangling references: when walk returns a document for an input   *)
(* whose references all resolve, every "#/$defs/<name>" reference left in  *)
(* the returned document names a key of the returned document's $defs.     *)
(***************************************************************************)
C8_NoDanglingReferences ==
    Returned /\ AllRefsResolve(original) => AllRefsResolve(Result)

(***************************************************************************)
(* C9: with prefer_inlined_defs, when a visited node's $ref names a        *)
(* definition that is neither on refs_stack nor a key of $defs, the walk   *)
(* raises the resolution error, returns no document, and nothing is        *)
(* visited or transformed after the node where this is detected.           *)
(***************************************************************************)
C9_UnresolvableRefRaises ==
    walks > 0 /\ tr.prefer_inlined_defs =>
        \A i \in 1..Len(outcome.log) :
            outcome.log[i].e = "resolve" /\ ~Has(tr.defs, outcome.log[i].k) =>
                /\ outcome.status = "raised"
                /\ outcome.err = ResolutionError
                /\ outcome.a = 0
                /\ i = Len(outcome.log)

\* C9 witness: a walk that inlines has resolved a reference before it meets
\* one that names no definition, and has raised the resolution error.
C9_RaisedAtUnresolvableRef ==
    /\ walks > 0
    /\ tr.prefer_inlined_defs
    /\ outcome.err = ResolutionError
    /\ Len(outcome.log) > 2
    /\ outcome.log[Len(outcome.log)].e = "resolve"
    /\ ~Has(tr.defs, outcome.log[Len(outcome.log)].k)

(***************************************************************************)
(* C10: with simplify_nullable_unions (the Google policy), a root with no  *)
(* type whose anyOf or oneOf has exactly two members, one {type: null} and *)
(* the other a schema X that is not {type: null}, is replaced by handled X *)
(* plus nullable: true.                                                    *)
(***************************************************************************)
C10_NullableUnionSimplified ==
    /\ tr.policy = "google"
    /\ walks = 1
    /\ Returned
    /\ IsNullableUnion(original)
    /\ FreshWalk(WithRoot(original, NonNullMember(original)), "google").status = "returned"
    => Result = PlusNullable(FreshWalk(WithRoot(original, NonNullMember(original)),
                                       "google").content)

(***************************************************************************)
(* Observations on the steps of the last walk.                             *)
(***************************************************************************)
\* The positions in the log of the calls of transform.
Hooks == {i \in 1..Len(outcome.log) : outcome.log[i].e = "hook"}

\* The entries, when the walk has ended, of the node of the i-th step.
NodeAfter(i) == heap[outcome.log[i].a]

IsObject(d) == IsStr(Get(d, "type"), "object")

\* list(d['properties'].keys()) as a JSON list.
PropertyKeys(d) ==
    VList(ListOf([i \in 1..Len(Get(d, "properties").l) |-> VStr(Get(d, "properties").l[i].k)],
                 Len(Get(d, "properties").l)))

\* additionalProperties is false and required lists the keys of properties.
StrictObject(d) ==
    /\ Get(d, "additionalProperties") = VBool(FALSE)
    /\ Get(d, "properties").t = "map"
    /\ Get(d, "required") = PropertyKeys(d)

(***************************************************************************)
(* C11: under the OpenAI policy with strict = true, every node that the    *)
(* walk has visited and that has type "object" in the output has           *)
(* additionalProperties false and required equal to the list of the keys   *)
(* of its properties, in order.                                            *)
(***************************************************************************)
C11_StrictObjectsClosed ==
    tr.policy = "openai" /\ tr.strict = "true" /\ Returned =>
        \A i \in Hooks : IsObject(NodeAfter(i)) => StrictObject(NodeAfter(i))

\* The entries of the node of the i-th step when the step was taken.
NodeAt(i) == outcome.log[i].d

\* What auto-detection requires of one node: no default, no
\* strict-incompatible keyword, no oneOf, and an object has
\* additionalProperties false, properties, and required naming every
\* property.
NodeStrictCompatible(d) ==
    /\ ~Has(d, "default")
    /\ \A i \in 1..Len(StrictIncompatibleKeys) : ~Has(d, StrictIncompatibleKeys[i])
    /\ ~Has(d, "oneOf")
    /\ IsObject(d) =>
           /\ Get(d, "additionalProperties") = VBool(FALSE)
           /\ Has(d, "properties")
           /\ Has(d, "required")
           /\ \A i \in 1..Len(Get(d, "properties").l) :
                  VStr(Get(d, "properties").l[i].k) \in SeqToSet(Get(d, "required").l)

(***************************************************************************)
(* C12: under the OpenAI policy with strict unset, is_strict_compatible is *)
(* true at the end of the walk exactly when every visited node meets what  *)
(* auto-detection requires (no default, no strict-incompatible keyword, no *)
(* oneOf; an object has additionalProperties false, properties, required,  *)
(* and every property key in required).                                    *)
(***************************************************************************)
C12_AutoDetectExact ==
    tr.policy = "openai" /\ tr.strict = "none" /\ walks > 0 =>
        (tr.is_strict_compatible <=> \A i \in Hooks : NodeStrictCompatible(NodeAt(i)))

\* C12 witness: an auto-detecting walk that visited an object node and ended
\* with is_strict_compatible true.
C12_CompatibleObjectDetected ==
    /\ tr.policy = "openai"
    /\ tr.strict = "none"
    /\ walks > 0
    /\ tr.is_strict_compatible
    /\ \E i \in Hooks : IsObject(NodeAt(i))

\* is_strict_compatible when walk was called, at every step, and at the end.
FlagTrace ==
    <<outcome.start.is_strict_compatible>>
    \o ListOf([i \in 1..Len(outcome.log) |-> outcome.log[i].compat], Len(outcome.log))
    \o <<tr.is_strict_compatible>>

\* The entries of d that the auto-detection checks look at.
Checked(d) ==
    SelectSeq(d, LAMBDA e : e.k \in {"default", "oneOf", "additionalProperties", "required"}
                                    \cup SeqToSet(StrictIncompatibleKeys))

(***************************************************************************)
(* C13: during a walk is_strict_compatible never goes from false to true;  *)
(* and under the OpenAI policy with strict unset, transform leaves default,*)
(* every strict-incompatible keyword, oneOf, additionalProperties and      *)
(* required of the node as they were, and so they are in the output (the   *)
(* root, over which walk splices the root definition, aside).              *)
(***************************************************************************)
C13_FlagOnlyNarrows ==
    walks > 0 =>
        /\ \A i \in 1..Len(FlagTrace), j \in 1..Len(FlagTrace) :
               i < j /\ FlagTrace[j] => FlagTrace[i]
        /\ tr.policy = "openai" /\ tr.strict = "none" =>
               \A i \in Hooks :
                   /\ i < Len(outcome.log)
                   /\ outcome.log[i + 1].e = "exit"
                   /\ outcome.log[i + 1].a = outcome.log[i].a
                   /\ Checked(outcome.log[i + 1].d) = Checked(NodeAt(i))
                   /\ outcome.log[i].a # outcome.a => Checked(NodeAfter(i)) = Checked(NodeAt(i))

\* C13 witness: an auto-detecting walk that started with the flag true, met a
\* node with a default and ended with the flag false and the default in place.
C13_ClearedByDefault ==
    /\ tr.policy = "openai"
    /\ tr.strict = "none"
    /\ walks > 0
    /\ outcome.start.is_strict_compatible
    /\ ~tr.is_strict_compatible
    /\ \E i \in Hooks : Has(NodeAt(i), "default") /\ Has(NodeAfter(i), "default")

(***************************************************************************)
(* C14: at the start of every walk call, a second call on the same         *)
(* transformer included, refs_stack is empty, recursive_refs is empty and  *)
(* is_strict_compatible is true.                                           *)
(***************************************************************************)
C14_FreshContextPerWalk ==
    walks > 0 =>
        /\ outcome.start.refs_stack = <<>>
        /\ outcome.start.recursive_refs = {}
        /\ outcome.start.is_strict_compatible

\* The schemas of list l that differ in content from every earlier one, in
\* the order of l.
RECURSIVE Distinct(_, _)
Distinct(l, kept) ==
    IF l = <<>> THEN kept
    ELSE Distinct(Tail(l),
                  IF \E j \in 1..Len(kept) : Content(heap, kept[j].n) = Content(heap, Head(l).n)
                  THEN kept ELSE Append(kept, Unkeyed(Head(l))))

\* The items schema and the positional schemas of node d, in that order.
ItemSchemas(d) ==
    (IF Has(d, "items") THEN <<Get(d, "items")>> ELSE <<>>) \o Get(d, "prefixItems").l

\* after is node d with the distinct schemas of d as its items.
ItemsMerged(d, after) ==
    LET distinct == Distinct(ItemSchemas(d), <<>>)
        items == Get(after, "items")
    IN  /\ ~Has(after, "prefixItems")
        /\ Len(distinct) = 0 => ~Has(after, "items")
        /\ Len(distinct) = 1 =>
               items.t = "dict" /\ Content(heap, items.n) = Content(heap, distinct[1].n)
        /\ Len(distinct) > 1 =>
               /\ items.t = "dict"
               /\ Keys(heap[items.n]) = <<"anyOf">>
               /\ Len(Get(heap[items.n], "anyOf").l) = Len(distinct)
               /\ \A j \in 1..Len(distinct) :
                      Content(heap, Get(heap[items.n], "anyOf").l[j].n) = Content(heap, distinct[j].n)

\* Hook i is followed by the return of its transform.
Transformed(i) ==
    /\ i < Len(outcome.log)
    /\ outcome.log[i + 1].e = "exit"
    /\ outcome.log[i + 1].a = outcome.log[i].a

(***************************************************************************)
(* C16: under the Google policy transform rewrites every node that has     *)
(* prefixItems (and no $ref, which it rejects first): prefixItems is gone  *)
(* and items holds the structurally distinct schemas among the former      *)
(* items and the positional schemas in first-seen order, a single one as   *)
(* items itself, several as items: {anyOf: [...]}.                         *)
(***************************************************************************)
C16_PrefixItemsMerged ==
    tr.policy = "google" /\ walks > 0 =>
        \A i \in Hooks :
            Has(NodeAt(i), "prefixItems") /\ ~Has(NodeAt(i), "$ref") =>
                Transformed(i) /\ ItemsMerged(NodeAt(i), outcome.log[i + 1].d)

(***************************************************************************)
(* C17: after the Google transform of a node with prefixItems, minItems is *)
(* the number of prefixItems entries; maxItems is that number when the     *)
(* node had no items, and is as it was before (absent included) when the   *)
(* node had items; whatever minItems and maxItems the node had before.     *)
(***************************************************************************)
C17_ItemBoundsFromPrefixLength ==
    tr.policy = "google" /\ walks > 0 =>
        \A i \in Hooks :
            Has(NodeAt(i), "prefixItems") /\ Transformed(i) =>
                /\ Get(outcome.log[i + 1].d, "minItems") = VInt(Len(Get(NodeAt(i), "prefixItems").l))
                /\ ~Has(NodeAt(i), "items") =>
                       Get(outcome.log[i + 1].d, "maxItems") = VInt(Len(Get(NodeAt(i), "prefixItems").l))
                /\ Has(NodeAt(i), "items") =>
                       Get(outcome.log[i + 1].d, "maxItems") = Get(NodeAt(i), "maxItems")

\* The document doc with the keys of every node in the order of Content.
Canonical(doc) ==
    LET Stored(r) == Content(r.h, r.v.n)
    IN  Stored(AllocVal(<<>>, doc))

(***************************************************************************)
(* C18: inlining is idempotent: when the inline-only walk of a schema with *)
(* no $defs and no $ref anywhere returns, the inline-only walk of the      *)
(* returned document returns that same document.                           *)
(***************************************************************************)
C18_InlineIdempotent ==
    /\ tr.policy = "inline"
    /\ walks > 0
    /\ Returned
    /\ ~Has(original.l, "$defs")
    /\ ~HasRefKey(original)
    => /\ FreshWalk(Result, "inline").status = "returned"
       /\ FreshWalk(Result, "inline").content = Result

\* C18 witness: the first inline-only walk of such a schema changed it (a
\* union of one member was replaced by the member) and the walk of its
\* result changes nothing more.
C18_CollapsedOnce ==
    /\ tr.policy = "inline"
    /\ walks > 0
    /\ Returned
    /\ ~Has(original.l, "$defs")
    /\ ~HasRefKey(original)
    /\ Result # Canonical(original)
    /\ FreshWalk(Result, "inline").content = Result

\* The name R when the root of v is nothing but a reference to a definition
\* R of v; "" otherwise.
BareRootRef(v) ==
    IF /\ SeqToSet(Keys(v.l)) = {"$defs", "$ref"}
       /\ Get(v.l, "$ref").t = "str" /\ Get(v.l, "$ref").n = 1
       /\ Get(v.l, "$ref").s \in DefNamesOf(v)
    THEN Get(v.l, "$ref").s ELSE ""

\* The definition n of v is reachable from itself through references.
SelfReferential(v, n) ==
    n \in ReachableDefs(v, RefsOfDef(v, n), Cardinality(DefNamesOf(v)))

(***************************************************************************)
(* C19: under the OpenAI policy the walk of a document whose root is only  *)
(* a reference to a self-referential definition R returns a document that  *)
(* has no top-level $ref, has at top level every key of its $defs entry R, *)
(* has R in $defs, and holds no reference "#/$defs/R" anywhere.            *)
(***************************************************************************)
C19_RecursiveRootSpliced ==
    /\ tr.policy = "openai"
    /\ walks > 0
    /\ BareRootRef(original) # ""
    /\ SelfReferential(original, BareRootRef(original))
    => /\ Returned
       /\ ~Has(Result.l, "$ref")
       /\ BareRootRef(original) \in DefNamesOf(Result)
       /\ SeqToSet(Keys(Get(Get(Result.l, "$defs").l, BareRootRef(original)).l))
              \subseteq SeqToSet(Keys(Result.l))
       /\ BareRootRef(original) \notin DefRefsIn(Result)

\* The number of _handle calls entered and not yet returned after step i.
Depth(i) ==
    Cardinality({k \in 1..i : outcome.log[k].e = "enter"})
    - Cardinality({k \in 1..i : outcome.log[k].e = "exit"})

\* Step i is the entry of the _handle call that returns at step j.
Returns(i, j) ==
    /\ i < j
    /\ outcome.log[i].e = "enter"
    /\ outcome.log[j].e = "exit"
    /\ Depth(j) = Depth(i) - 1
    /\ \A k \in i..(j - 1) : Depth(k) >= Depth(i)

NoDuplicates(s) == \A i \in 1..Len(s), j \in 1..Len(s) : s[i] = s[j] => i = j

(***************************************************************************)
(* C20: every _handle call that returns leaves refs_stack as it was on     *)
(* entry; refs_stack never holds a name twice; and a name is found         *)
(* recursive, and so is in recursive_refs, only if its definition is       *)
(* reachable from itself through references (so a reference to a           *)
(* non-cyclic definition is resolved at every site).                       *)
(***************************************************************************)
C20_StackDiscipline ==
    walks > 0 =>
        /\ \A j \in 1..Len(outcome.log) :
               outcome.log[j].e = "exit" =>
                   \E i \in 1..Len(outcome.log) :
                       Returns(i, j) /\ outcome.log[i].stack = outcome.log[j].stack
        /\ \A i \in 1..Len(outcome.log) : NoDuplicates(outcome.log[i].stack)
        /\ NoDuplicates(tr.refs_stack)
        /\ \A i \in 1..Len(outcome.log) :
               outcome.log[i].e = "recursive" => SelfReferential(original, outcome.log[i].k)
        /\ \A n \in tr.recursive_refs : SelfReferential(original, n)

\* How the walk of a new transformer like self over the document doc, run
\* with nothing else going on, ends: the outcome, the returned document and
\* the transformer's fields.
WalkAlone(doc, self) ==
    LET Ended(w) ==
            [status |-> IF Failed(w.st) THEN "raised" ELSE "returned",
             err |-> w.st.err,
             content |-> IF Failed(w.st) THEN VNone ELSE Content(w.st.h, w.a),
             refs_stack |-> w.st.refs_stack,
             recursive_refs |-> w.st.recursive_refs,
             is_strict_compatible |-> w.st.is_strict_compatible]
        Walking(r) ==
            Ended(Walk(NewTransformer(r.h, r.v.n, self.policy, self.strict, self.set_order),
                       [h |-> r.h, refs_stack |-> <<>>, recursive_refs |-> {},
                        is_strict_compatible |-> TRUE, warnings |-> <<>>, log |-> <<>>,
                        err |-> ""]))
    IN  Walking(AllocVal(<<>>, doc))

\* How the walk of thread t has ended.
WalkOf(t) ==
    [status |-> threads[t].pc,
     err |-> threads[t].err,
     content |-> IF threads[t].pc = "returned" THEN Content(heap, threads[t].result) ELSE VNone,
     refs_stack |-> contexts[ContextOf(t)].refs_stack,
     recursive_refs |-> contexts[ContextOf(t)].recursive_refs,
     is_strict_compatible |-> contexts[ContextOf(t)].is_strict_compatible]

(***************************************************************************)
(* C15: two walks that run at the same time on distinct transformers over  *)
(* distinct documents do not interfere: however their steps interleave,    *)
(* each ends as it does alone, with the same document (or exception) and   *)
(* the same is_strict_compatible, refs_stack and recursive_refs.           *)
(***************************************************************************)
C15_ConcurrentWalksIndependent ==
    \A t \in DOMAIN threads :
        threads[t].pc \in {"returned", "raised"} =>
            WalkOf(t) = WalkAlone(threads[t].doc, threads[t].self)

\* C15 witness: both walks have ended, each took steps while the other was
\* under way, one resolved references and the other cleared its flag.
C15_BothEndedInterleaved ==
    /\ DOMAIN threads = Threads
    /\ \A t \in Threads : threads[t].pc = "returned" /\ threads[t].overlapped
    /\ threads[1].self.policy = "inline"
    /\ Has(threads[1].doc.l, "$defs")
    /\ contexts[1].recursive_refs # {}
    /\ threads[2].self.policy = "openai"
    /\ ~contexts[2].is_strict_compatible
    /\ contexts[1].is_strict_compatible

(***************************************************************************)
(* C21: when definitions are inlined and recursive references were found,  *)
(* walk returns a document with exactly the keys $defs and $ref; $defs     *)
(* holds the recursive definitions and one more entry, the root, whose     *)
(* key is none of theirs, and $ref points at that root entry.              *)
(***************************************************************************)
C21_ReducedDefsKeepRecursive ==
    tr.prefer_inlined_defs /\ walks > 0 /\ Returned /\ tr.recursive_refs # {} =>
        /\ SeqToSet(Keys(heap[outcome.a])) = {"$defs", "$ref"}
        /\ Get(heap[outcome.a], "$ref").t = "str"
        /\ Get(heap[outcome.a], "$ref").n = 1
        /\ Get(heap[outcome.a], "$ref").s \notin tr.recursive_refs
        /\ SeqToSet(Keys(Get(heap[outcome.a], "$defs").l))
               = tr.recursive_refs \cup {Get(heap[outcome.a], "$ref").s}
        /\ \A n \in tr.recursive_refs :
               Unkeyed(Get(Get(heap[outcome.a], "$defs").l, n)) = Unkeyed(Get(tr.defs, n))

\* The step at which the _handle call entered at step i returns.
ExitOf(i) == CHOOSE j \in 1..Len(outcome.log) : Returns(i, j)

\* The steps at which the _handle calls made one after the other from step k
\* on return, in order.
RECURSIVE Kids(_)
Kids(k) ==
    IF k <= Len(outcome.log) /\ outcome.log[k].e = "enter"
    THEN <<ExitOf(k)>> \o Kids(ExitOf(k) + 1)
    ELSE <<>>

\* The members of the union keyword key of node d (none when it is absent
\* or empty).
UnionMembers(d, key) == IF Get(d, key).t = "list" THEN Get(d, key).l ELSE <<>>

\* The handled members returned at the steps kids[from + 1..from + n] are two,
\* one of them {type: null}, and nullable unions are simplified.
Simplified(kids, from, n) ==
    /\ tr.simplify_nullable_unions
    /\ n = 2
    /\ \E p \in 1..2 : outcome.log[kids[from + p]].d = <<K("type", VStr("null"))>>

\* Node d keeps its union key with the nodes returned at the steps
\* kids[from + 1..from + n] as the members, in that order.
KeepsMembers(d, key, kids, from, n) ==
    /\ Len(UnionMembers(d, key)) = n
    /\ \A p \in 1..n : UnionMembers(d, key)[p].n = outcome.log[kids[from + p]].a

\* What C22 says of the _handle call entered at step i on a node with
\* members any under anyOf and one under oneOf: hook is the step of its
\* transform, kids the returns of the calls for the members.
UnionUnwrapped(i, hook, kids, any, one) ==
    IF Len(any) = 1 THEN outcome.log[hook].a = outcome.log[kids[1]].a
    ELSE IF Simplified(kids, 0, Len(any))
    THEN outcome.log[hook].a # outcome.log[i].a /\ ~Has(outcome.log[hook].d, "anyOf")
    ELSE IF Len(one) = 1 THEN outcome.log[hook].a = outcome.log[kids[Len(any) + 1]].a
    ELSE IF Simplified(kids, Len(any), Len(one))
    THEN outcome.log[hook].a # outcome.log[i].a /\ ~Has(outcome.log[hook].d, "oneOf")
    ELSE /\ KeepsMembers(outcome.log[hook].d, "anyOf", kids, 0, Len(any))
         /\ KeepsMembers(outcome.log[hook].d, "oneOf", kids, Len(any), Len(one))
         /\ Pop(Pop(outcome.log[hook].d, "anyOf"), "oneOf")
                = Pop(Pop(outcome.log[i].d, "anyOf"), "oneOf")

(***************************************************************************)
(* C22: when _handle is called on a node with no type (and no reference    *)
(* to resolve), a union keyword left with exactly one member after the     *)
(* members are handled (and nullable unions simplified) makes that member  *)
(* the node handed to transform; with two or more members left under each  *)
(* union keyword present, the node keeps its keys and the handled members  *)
(* in their order.                                                         *)
(***************************************************************************)
C22_SingletonUnionUnwrapped ==
    walks > 0 /\ Returned =>
        \A i \in 1..Len(outcome.log) :
            /\ outcome.log[i].e = "enter"
            /\ ~Has(outcome.log[i].d, "type")
            /\ ~(tr.prefer_inlined_defs /\ Has(outcome.log[i].d, "$ref"))
            => UnionUnwrapped(i, ExitOf(i) - 1, Kids(i + 1),
                              UnionMembers(outcome.log[i].d, "anyOf"),
                              UnionMembers(outcome.log[i].d, "oneOf"))

\* Node d without the keys the OpenAI transform removes before it looks at
\* $ref: title, $schema, discriminator and, when strict is true, default.
Stripped(d) ==
    PopAll(d, IF tr.strict = "true" THEN <<"title", "$schema", "discriminator", "default">>
              ELSE <<"title", "$schema", "discriminator">>)

\* The reference of node d as the OpenAI transform leaves it: "#" when it is
\* the reference of the root.
RewrittenRef(d) ==
    K("$ref", IF Get(d, "$ref") = tr.root_ref THEN VStr("#") ELSE Get(d, "$ref"))

(***************************************************************************)
(* C23: under the OpenAI policy, in every mode, no node that transform     *)
(* returns has $ref together with another key: a node with $ref and other  *)
(* keys (title, $schema, discriminator and, when strict is true, default   *)
(* aside) ends with anyOf: [{$ref: ...}] and no $ref of its own, and a     *)
(* reference equal to the root's is rewritten to "#".                      *)
(***************************************************************************)
C23_RefNeverWithSiblings ==
    tr.policy = "openai" /\ walks > 0 =>
        \A i \in Hooks :
            /\ Transformed(i)
            /\ Has(outcome.log[i + 1].d, "$ref") => Len(outcome.log[i + 1].d) = 1
            /\ Has(NodeAt(i), "$ref") =>
                   IF Len(Stripped(NodeAt(i))) = 1
                   THEN outcome.log[i + 1].d = <<RewrittenRef(NodeAt(i))>>
                   ELSE /\ Get(outcome.log[i + 1].d, "anyOf").t = "list"
                        /\ Len(Get(outcome.log[i + 1].d, "anyOf").l) = 1
                        /\ Get(outcome.log[i + 1].d, "anyOf").l[1].t = "dict"
                        /\ heap[Get(outcome.log[i + 1].d, "anyOf").l[1].n]
                               = <<RewrittenRef(NodeAt(i))>>

\* The strict-incompatible keywords that node d has.
IncompatibleKeysOf(d) == SelectSeq(StrictIncompatibleKeys, LAMBDA key : Has(d, key))

\* The description of node after is that of node d followed by the notes
\* key=value of the given keys of d in parentheses, or the notes alone when
\* d had no description.
Annotated(d, after, keys) ==
    Get(after, "description")
        = VStr(IF Truthy(heap, Get(d, "description"))
               THEN PyStr(Get(d, "description")) \o " (" \o IncompatibleNotes(d, keys) \o ")"
               ELSE IncompatibleNotes(d, keys))

(***************************************************************************)
(* C24: under the OpenAI policy with strict true, no node of the output    *)
(* that transform was applied to has a strict-incompatible keyword,        *)
(* default or oneOf; and a node from which transform removed               *)
(* strict-incompatible keywords has a description made of its former       *)
(* description, if any, followed by a note key=value for each of them.     *)
(***************************************************************************)
C24_StrictOutputClean ==
    tr.policy = "openai" /\ tr.strict = "true" /\ walks > 0 /\ Returned =>
        \A i \in Hooks :
            /\ \A key \in SeqToSet(StrictIncompatibleKeys) \cup {"default", "oneOf"} :
                   ~Has(NodeAfter(i), key)
            /\ IncompatibleKeysOf(NodeAt(i)) # <<>> =>
                   /\ Transformed(i)
                   /\ \/ Annotated(NodeAt(i), outcome.log[i + 1].d, IncompatibleKeysOf(NodeAt(i)))
                      \/ Annotated(NodeAt(i), outcome.log[i + 1].d,
                                   Reverse(IncompatibleKeysOf(NodeAt(i))))

\* The string s ends with the string suffix.
EndsWith(s, suffix) ==
    /\ Len(s) >= Len(suffix)
    /\ SubSeq(s, Len(s) - Len(suffix) + 1, Len(s)) = suffix

\* Hook i is on a node with type string and a format keyword, and its
\* transform, under the Google policy, returned.
FormatHook(i) ==
    /\ tr.policy = "google"
    /\ Transformed(i)
    /\ IsStr(Get(NodeAt(i), "type"), "string")
    /\ Has(NodeAt(i), "format")

\* The text "(format: v)" for the format v of node d.
FormatNote(d) == "(format: " \o PyStr(Get(d, "format")) \o ")"

(***************************************************************************)
(* C25 as stated: under the Google policy, a node with type string and a   *)
(* format value v leaves transform without format and with a description   *)
(* that ends with "(format: v)", which follows the former description and  *)
(* a space when there was one.                                             *)
(***************************************************************************)
C25_FormatNoteParenthesised ==
    walks > 0 =>
        \A i \in Hooks :
            FormatHook(i) /\ Truthy(heap, Get(NodeAt(i), "format")) =>
                /\ ~Has(outcome.log[i + 1].d, "format")
                /\ Get(outcome.log[i + 1].d, "description").t = "str"
                /\ EndsWith(Get(outcome.log[i + 1].d, "description").s, FormatNote(NodeAt(i)))
                /\ Truthy(heap, Get(NodeAt(i), "description")) =>
                       Get(outcome.log[i + 1].d, "description")
                           = VStr(PyStr(Get(NodeAt(i), "description")) \o " "
                                  \o FormatNote(NodeAt(i)))

(***************************************************************************)
(* C25 amended: under the Google policy, a node with type string and a     *)
(* format keyword leaves transform without format; for a non-empty format  *)
(* v its description is the former description followed by " (format: v)"  *)
(* when there was a non-empty one, and the new text "Format: v" when there *)
(* was none; for an empty format the description is untouched.             *)
(***************************************************************************)
C25_FormatNoteAmended ==
    walks > 0 =>
        \A i \in Hooks :
            FormatHook(i) =>
                /\ ~Has(outcome.log[i + 1].d, "format")
                /\ Get(outcome.log[i + 1].d, "description")
                       = IF ~Truthy(heap, Get(NodeAt(i), "format"))
                         THEN Get(NodeAt(i), "description")
                         ELSE IF Truthy(heap, Get(NodeAt(i), "description"))
                         THEN VStr(PyStr(Get(NodeAt(i), "description")) \o " "
                                   \o FormatNote(NodeAt(i)))
                         ELSE VStr("Format: " \o PyStr(Get(NodeAt(i), "format")))

\* C25 witness: transform has created the description "Format: date" on a
\* string node that had a format and no description.
C25_Witness ==
    /\ walks > 0
    /\ \E i \in Hooks :
           /\ FormatHook(i)
           /\ Get(NodeAt(i), "format") = VStr("date")
           /\ ~Has(NodeAt(i), "description")
           /\ Get(outcome.log[i + 1].d, "description") = VStr("Format: date")

\* The number of warnings the last walk emitted for the node at address a.
WarningsFor(a) ==
    Cardinality({j \in 1..Len(outcome.warnings) : outcome.warnings[j] = a})

\* Hook i is on the node at address a, which had additionalProperties, and
\* its transform returned the node without it.
DroppedAt(i, a) ==
    /\ outcome.log[i].a = a
    /\ Transformed(i)
    /\ Has(NodeAt(i), "additionalProperties")
    /\ ~Has(outcome.log[i + 1].d, "additionalProperties")

\* Hook i is on the node at address a, which had a truthy
\* additionalProperties.
TruthyAt(i, a) ==
    /\ outcome.log[i].a = a
    /\ Truthy(heap, Get(NodeAt(i), "additionalProperties"))

(***************************************************************************)
(* C26 as stated: in a walk under the Google policy that returned, a node  *)
(* with a truthy additionalProperties leaves transform without it, and a   *)
(* warning is emitted for a node exactly as often as transform removed     *)
(* additionalProperties from it.                                           *)
(***************************************************************************)
C26_DroppedIffWarned ==
    tr.policy = "google" /\ walks > 0 /\ Returned =>
        /\ \A i \in Hooks : TruthyAt(i, outcome.log[i].a) => DroppedAt(i, outcome.log[i].a)
        /\ \A a \in DOMAIN heap :
               WarningsFor(a) = Cardinality({i \in Hooks : DroppedAt(i, a)})

(***************************************************************************)
(* C26 amended: in a walk under the Google policy that returned, every     *)
(* node leaves transform without additionalProperties, whatever the value  *)
(* was, and a warning is emitted for a node exactly as often as transform  *)
(* met a truthy additionalProperties on it.                                *)
(***************************************************************************)
C26_DroppedAlwaysWarnedIfTruthy ==
    tr.policy = "google" /\ walks > 0 /\ Returned =>
        /\ \A i \in Hooks :
               Transformed(i) /\ ~Has(outcome.log[i + 1].d, "additionalProperties")
        /\ \A a \in DOMAIN heap :
               WarningsFor(a) = Cardinality({i \in Hooks : TruthyAt(i, a)})

\* C26 witness: a walk under the Google policy has returned without a
\* warning after transform removed additionalProperties false from a node.
C26_FalseDroppedSilently ==
    /\ tr.policy = "google" /\ walks > 0 /\ Returned
    /\ outcome.warnings = <<>>
    /\ \E i \in Hooks :
           /\ DroppedAt(i, outcome.log[i].a)
           /\ Get(NodeAt(i), "additionalProperties") = VBool(FALSE)

\* C26 witness of the warning: a walk under the Google policy has returned
\* with a warning for a node whose additionalProperties was truthy.
C26_TruthyWarned ==
    /\ tr.policy = "google" /\ walks > 0 /\ Returned
    /\ \E i \in Hooks : TruthyAt(i, outcome.log[i].a) /\ WarningsFor(outcome.log[i].a) = 1

\* The positional schema v has a value that is a nested mapping or sequence.
NestedItem(v) ==
    /\ v.t = "dict"
    /\ \E j \in 1..Len(heap[v.n]) : heap[v.n][j].t \in {"dict", "list", "node", "map"}

\* The object v is the items of the node d or a member of its anyOf.
KeptItem(d, v) ==
    \/ Unkeyed(Get(d, "items")) = Unkeyed(v)
    \/ /\ Get(d, "items").t = "dict"
       /\ \E j \in 1..Len(Get(heap[Get(d, "items").n], "anyOf").l) :
              Unkeyed(Get(heap[Get(d, "items").n], "anyOf").l[j]) = Unkeyed(v)

(***************************************************************************)
(* C27: under the Google policy the rewrite of a node with prefixItems     *)
(* (and no $ref) completes without error whatever the positional schemas   *)
(* are, and every positional schema that has a nested mapping or sequence  *)
(* as a value is kept by identity: the object itself is the new items or a *)
(* member of its anyOf, also when another entry is structurally equal.     *)
(***************************************************************************)
C27_NestedItemsKeptByIdentity ==
    tr.policy = "google" /\ walks > 0 =>
        \A i \in Hooks :
            Has(NodeAt(i), "prefixItems") /\ ~Has(NodeAt(i), "$ref") =>
                /\ Transformed(i)
                /\ \A j \in 1..Len(Get(NodeAt(i), "prefixItems").l) :
                       NestedItem(Get(NodeAt(i), "prefixItems").l[j]) =>
                           KeptItem(outcome.log[i + 1].d, Get(NodeAt(i), "prefixItems").l[j])

\* The keywords the strictness rewrites of the OpenAI policy act on.
StrictnessKeys ==
    SeqToSet(StrictIncompatibleKeys) \cup {"default", "oneOf", "additionalProperties", "required"}

(***************************************************************************)
(* C28: a walk under the OpenAI policy with strict false leaves            *)
(* is_strict_compatible as it was, at every call of transform and at the   *)
(* end, and every call of transform returns the node with default, the     *)
(* strict-incompatible keywords, oneOf, additionalProperties and required  *)
(* as they were when it was called.                                        *)
(***************************************************************************)
C28_LaxModeLeavesFlagAndKeywords ==
    tr.policy = "openai" /\ tr.strict = "false" /\ walks > 0 =>
        /\ tr.is_strict_compatible = outcome.start.is_strict_compatible
        /\ \A i \in Hooks :
               Transformed(i) =>
                   /\ outcome.log[i + 1].compat = outcome.log[i].compat
                   /\ \A key \in StrictnessKeys :
                          /\ Has(outcome.log[i + 1].d, key) = Has(NodeAt(i), key)
                          /\ Get(outcome.log[i + 1].d, key) = Get(NodeAt(i), key)

\* The values of keyword key of node d: the entries of a list or of a
\* mapping of schemas, a schema itself, none otherwise.
SchemasUnder(d, key) ==
    CASE Get(d, key).t \in {"list", "map"} -> Get(d, key).l
      [] Get(d, key).t = "dict" -> <<Get(d, key)>>
      [] OTHER -> <<>>

\* The children of node d that _handle visits, by the type of d.
VisitedChildren(d) ==
    CASE IsStr(Get(d, "type"), "object") ->
             SchemasUnder(d, "properties") \o SchemasUnder(d, "additionalProperties")
                 \o SchemasUnder(d, "patternProperties")
      [] IsStr(Get(d, "type"), "array") ->
             SchemasUnder(d, "prefixItems") \o SchemasUnder(d, "items")
      [] ~Has(d, "type") -> SchemasUnder(d, "anyOf") \o SchemasUnder(d, "oneOf")
      [] OTHER -> <<>>

\* Every visited child of the node of hook i has been handed to transform
\* before step i (the node that the simplification of a nullable union
\* builds is a copy, children included, of the handled member).
ChildrenHookedBefore(i) ==
    Has(NodeAt(i), "nullable") \/
    \A c \in 1..Len(VisitedChildren(NodeAt(i))) :
        VisitedChildren(NodeAt(i))[c].t = "dict" =>
            \E j \in Hooks : j < i /\ outcome.log[j].a = VisitedChildren(NodeAt(i))[c].n

\* The number of calls of transform on the node at address a.
HooksOn(a) == Cardinality({i \in Hooks : outcome.log[i].a = a})

(***************************************************************************)
(* C29: in a walk that returned, every _handle call that has entered has   *)
(* returned, after a call of transform, before the transform of its        *)
(* caller's node; transform is called on a node only after it was called   *)
(* on each of the node's visited children; and no node of the returned     *)
(* document has transform called on it more than once.                     *)
(***************************************************************************)
C29_HookAfterChildrenExactlyOnce ==
    walks > 0 /\ Returned =>
        /\ \A i \in Hooks :
               /\ ChildrenHookedBefore(i)
               /\ \A k \in 1..(i - 1) :
                      outcome.log[k].e = "enter" /\ outcome.log[k].a # outcome.log[i].a
                          /\ Depth(k) > Depth(i)
                      => ExitOf(k) < i /\ outcome.log[ExitOf(k) - 1].e = "hook"
        /\ \A a \in Reachable(heap, {outcome.a}) : HooksOn(a) <= 1

\* The three profiles a, b, c that are layered are of one class.
OneClass == profiles[1].cls = profiles[2].cls /\ profiles[2].cls = profiles[3].cls

\* All four calls of the layering have been made: a.update(b).update(c) is
\* the fifth profile and a.update(b.update(c)) the seventh.
Layered == calls = 4 /\ Len(profiles) = 7

(***************************************************************************)
(* C30: an update never resets a field to its default: a field in which    *)
(* base holds a non-default value and override holds the default keeps     *)
(* base's value in the result; openai_supports_strict_tool_definition      *)
(* False of an OpenAIModelProfile base survives every update; and for      *)
(* three profiles of one class a.update(b).update(c) equals                *)
(* a.update(b.update(c)).                                                  *)
(***************************************************************************)
C30_LayeringKeepsNonDefaults ==
    /\ UpdatedWith =>
           /\ \A f \in NonDefaultFields(Base) \cap DOMAIN Override.attrs :
                  Override.attrs[f] = Default(f) => Merge.attrs[f] = Base.attrs[f]
           /\ /\ Base.cls = "OpenAIModelProfile"
              /\ Base.attrs["openai_supports_strict_tool_definition"] = FALSE
              => Merge.attrs["openai_supports_strict_tool_definition"] = FALSE
    /\ Layered /\ OneClass => profiles[5] = profiles[7]

\* C30 witness: three profiles of one class have been layered both ways, b
\* and c each changed the result, a non-default field of a met the default in
\* b and in c, and it has a's value in the result.
C30_ThreeLayers ==
    /\ Layered /\ OneClass
    /\ profiles[4] # profiles[1]
    /\ profiles[5] # profiles[4]
    /\ \E f \in NonDefaultFields(profiles[1]) :
           /\ profiles[2].attrs[f] = Default(f)
           /\ profiles[3].attrs[f] = Default(f)
           /\ profiles[7].attrs[f] = profiles[1].attrs[f]

====
